---- MODULE Spec2Model ----
(***************************************************************************)
(* Inline diff review of the Obsidian Claude Code IDE plugin:              *)
(*   - diff-chunks.ts : computeDiffChunks / groupDiffsIntoChunks /         *)
(*                      finalizeChunk / generateChunkId / applyChunks      *)
(*   - diff-state.ts  : inlineDiffStateField (the decision reducer) and    *)
(*                      its query helpers                                  *)
(*   - inline-diff-extension.ts : createApplyDiffPlugin (the commit)       *)
(* Text is a sequence of characters; offsets are 0-based as in the source. *)
(***************************************************************************)
EXTENDS Integers, Sequences, FiniteSets, TLC

\* ------------------------------------------------------------------------
\* Bounds of the model
\* ------------------------------------------------------------------------

\* the alphabet of the documents
Chars == {"a", "b"}

\* largest number of characters an edit script carries (a filler run counts 1)
MaxLen == 3

\* largest explicit minGapSize tried besides the default
MaxGap == 2

\* values generateChunkId may return (clock and random source are free)
IdSpace == {"id1", "id2"}

\* a chunk id that no chunk of a session carries
UnknownId == "id0"

\* default of computeDiffChunks' minGapSize parameter
DefaultMinGapSize == 50

\* ------------------------------------------------------------------------
\* Text helpers (String.prototype.substring clamps its arguments)
\* ------------------------------------------------------------------------

Min(a, b) == IF a < b THEN a ELSE b

Max(a, b) == IF a > b THEN a ELSE b

Clamp(n, len) == Max(0, Min(n, len))

\* s.substring(start, end)
substring(s, start, end) ==
    LET a == Clamp(start, Len(s))
        b == Clamp(end, Len(s))
    IN SubSeq(s, Min(a, b) + 1, Max(a, b))

\* s.substring(start)
substringFrom(s, start) == SubSeq(s, Clamp(start, Len(s)) + 1, Len(s))

\* ------------------------------------------------------------------------
\* Edit scripts: what dmp.diff_main + dmp.diff_cleanupSemantic hand to
\* groupDiffsIntoChunks.  The library is not part of the repository; its
\* result is modelled by its contract: a script of non-empty EQUAL / DELETE /
\* INSERT ops in diff-match-patch's merged form (no two neighbouring ops of
\* one kind, a DELETE before the INSERT of the same edit), whose EQUAL+DELETE
\* texts spell the old content and whose EQUAL+INSERT texts spell the new.
\* ------------------------------------------------------------------------

OpKinds == {"EQUAL", "DELETE", "INSERT"}

\* an unchanged run exactly as long as the default gap
Filler == [i \in 1..DefaultMinGapSize |-> "a"]

ShortTexts == UNION {[1..k -> Chars] : k \in 1..MaxLen}

Weight(op) == IF op.text = Filler THEN 1 ELSE Len(op.text)

RECURSIVE TotalWeight(_)
TotalWeight(s) == IF s = <<>> THEN 0 ELSE Weight(Head(s)) + TotalWeight(Tail(s))

EditOps ==
    [op : OpKinds, text : ShortTexts] \cup {[op |-> "EQUAL", text |-> Filler]}

\* may op b follow op a in a merged script
MayFollow(a, b) ==
    /\ a.op # b.op
    /\ ~(a.op = "INSERT" /\ b.op = "DELETE")

RECURSIVE ScriptsOfOps(_)
ScriptsOfOps(n) ==
    IF n = 0 THEN {<<>>}
    ELSE LET prev == ScriptsOfOps(n - 1)
         IN prev \cup
            {Append(s, o) : <<s, o>> \in
                {p \in prev \X EditOps :
                    /\ Len(p[1]) = n - 1
                    /\ TotalWeight(p[1]) + Weight(p[2]) <= MaxLen
                    /\ (p[1] # <<>> => MayFollow(p[1][Len(p[1])], p[2]))}}

Scripts == ScriptsOfOps(MaxLen)

RECURSIVE OldOf(_)
OldOf(s) ==
    IF s = <<>> THEN <<>>
    ELSE (IF Head(s).op \in {"EQUAL", "DELETE"} THEN Head(s).text ELSE <<>>)
         \o OldOf(Tail(s))

RECURSIVE NewOf(_)
NewOf(s) ==
    IF s = <<>> THEN <<>>
    ELSE (IF Head(s).op \in {"EQUAL", "INSERT"} THEN Head(s).text ELSE <<>>)
         \o NewOf(Tail(s))

\* the scripts the diff library may return for a given old content
ScriptsFrom == [old \in {OldOf(d) : d \in Scripts} |-> {d \in Scripts : OldOf(d) = old}]

\* dmp.diff_main(old, new) followed by dmp.diff_cleanupSemantic, for the new
\* contents within the bounds; equal contents give the single EQUAL op
DiffMain(old) ==
    (IF old \in DOMAIN ScriptsFrom THEN ScriptsFrom[old] ELSE {})
    \cup (IF old = <<>> THEN {} ELSE {<<[op |-> "EQUAL", text |-> old]>>})

GapSizes == (0..MaxGap) \cup {DefaultMinGapSize}

\* ------------------------------------------------------------------------
\* diff-chunks.ts
\* ------------------------------------------------------------------------

\* the k-th call of generateChunkId within one computeDiffChunks call
generateChunkId(ids, k) == ids[k]

\* a finalizeChunk that puts the chunk in front of the list (unshift)
finalizeChunkFirst(chunk, chunks) ==
    LET type == IF chunk.oldText # <<>> /\ chunk.newText # <<>> THEN "change"
                ELSE IF chunk.newText # <<>> THEN "insert"
                ELSE "delete"
    IN <<[id |-> chunk.id, type |-> type,
          oldRange |-> chunk.oldRange, newRange |-> chunk.newRange,
          oldText |-> chunk.oldText, newText |-> chunk.newText,
          status |-> chunk.status]>> \o chunks

\* a finalizeChunk that tests oldText first and never answers "change"
finalizeChunkOldFirst(chunk, chunks) ==
    LET type == IF chunk.oldText # <<>> THEN "delete" ELSE "insert"
    IN Append(chunks,
          [id |-> chunk.id, type |-> type,
           oldRange |-> chunk.oldRange, newRange |-> chunk.newRange,
           oldText |-> chunk.oldText, newText |-> chunk.newText,
           status |-> chunk.status])

finalizeChunk(chunk, chunks) ==
    LET type == IF chunk.oldText # <<>> /\ chunk.newText # <<>> THEN "change"
                ELSE IF chunk.newText # <<>> THEN "insert"
                ELSE "delete"
    IN Append(chunks,
          [id |-> chunk.id, type |-> type,
           oldRange |-> chunk.oldRange, newRange |-> chunk.newRange,
           oldText |-> chunk.oldText, newText |-> chunk.newText,
           status |-> chunk.status])

\* the loop state of groupDiffsIntoChunks before the first op
GroupStart ==
    [chunks |-> <<>>, currentChunk |-> <<>>, oldPos |-> 0, newPos |-> 0,
     unchangedCount |-> 0, idCalls |-> 0]

\* the loop body with the gap test written unchangedCount > minGapSize
GroupStepStrict(g, d, minGapSize, ids) ==
    LET textLength == Len(d.text) IN
    IF d.op = "EQUAL"
    THEN LET uc == g.unchangedCount + textLength
             close == g.currentChunk # <<>> /\ uc > minGapSize
         IN [g EXCEPT
               !.chunks = IF close THEN finalizeChunk(g.currentChunk[1], @) ELSE @,
               !.currentChunk = IF close THEN <<>> ELSE @,
               !.unchangedCount = IF close THEN 0 ELSE uc,
               !.oldPos = @ + textLength,
               !.newPos = @ + textLength]
    ELSE LET open == g.currentChunk = <<>>
             cur == IF open
                    THEN [id |-> generateChunkId(ids, g.idCalls + 1),
                          oldRange |-> [from |-> g.oldPos, to |-> g.oldPos],
                          newRange |-> [from |-> g.newPos, to |-> g.newPos],
                          oldText |-> <<>>, newText |-> <<>>,
                          status |-> "pending"]
                    ELSE g.currentChunk[1]
             next == IF d.op = "DELETE"
                     THEN [cur EXCEPT !.oldText = @ \o d.text,
                                      !.oldRange.to = g.oldPos + textLength]
                     ELSE [cur EXCEPT !.newText = @ \o d.text,
                                      !.newRange.to = g.newPos + textLength]
         IN [g EXCEPT
               !.currentChunk = <<next>>,
               !.idCalls = IF open THEN @ + 1 ELSE @,
               !.unchangedCount = 0,
               !.oldPos = IF d.op = "DELETE" THEN @ + textLength ELSE @,
               !.newPos = IF d.op = "INSERT" THEN @ + textLength ELSE @]

\* one iteration of the for loop of groupDiffsIntoChunks
\* the loop body that appends a swallowed unchanged run to the texts of the
\* open chunk
GroupStepSwallow(g, d, minGapSize, ids) ==
    LET textLength == Len(d.text) IN
    IF d.op = "EQUAL"
    THEN LET uc == g.unchangedCount + textLength
             close == g.currentChunk # <<>> /\ uc >= minGapSize
             swallowed == IF g.currentChunk = <<>> THEN <<>>
                          ELSE <<[g.currentChunk[1] EXCEPT !.oldText = @ \o d.text,
                                                           !.newText = @ \o d.text]>>
         IN [g EXCEPT
               !.chunks = IF close THEN finalizeChunk(g.currentChunk[1], @) ELSE @,
               !.currentChunk = IF close THEN <<>> ELSE swallowed,
               !.unchangedCount = IF close THEN 0 ELSE uc,
               !.oldPos = @ + textLength,
               !.newPos = @ + textLength]
    ELSE LET open == g.currentChunk = <<>>
             cur == IF open
                    THEN [id |-> generateChunkId(ids, g.idCalls + 1),
                          oldRange |-> [from |-> g.oldPos, to |-> g.oldPos],
                          newRange |-> [from |-> g.newPos, to |-> g.newPos],
                          oldText |-> <<>>, newText |-> <<>>,
                          status |-> "pending"]
                    ELSE g.currentChunk[1]
             next == IF d.op = "DELETE"
                     THEN [cur EXCEPT !.oldText = @ \o d.text,
                                      !.oldRange.to = g.oldPos + textLength]
                     ELSE [cur EXCEPT !.newText = @ \o d.text,
                                      !.newRange.to = g.newPos + textLength]
         IN [g EXCEPT
               !.currentChunk = <<next>>,
               !.idCalls = IF open THEN @ + 1 ELSE @,
               !.unchangedCount = 0,
               !.oldPos = IF d.op = "DELETE" THEN @ + textLength ELSE @,
               !.newPos = IF d.op = "INSERT" THEN @ + textLength ELSE @]

GroupStep(g, d, minGapSize, ids) ==
    LET textLength == Len(d.text) IN
    IF d.op = "EQUAL"
    THEN LET uc == g.unchangedCount + textLength
             close == g.currentChunk # <<>> /\ uc >= minGapSize
         IN [g EXCEPT
               !.chunks = IF close THEN finalizeChunk(g.currentChunk[1], @) ELSE @,
               !.currentChunk = IF close THEN <<>> ELSE @,
               !.unchangedCount = IF close THEN 0 ELSE uc,
               !.oldPos = @ + textLength,
               !.newPos = @ + textLength]
    ELSE LET open == g.currentChunk = <<>>
             cur == IF open
                    THEN [id |-> generateChunkId(ids, g.idCalls + 1),
                          oldRange |-> [from |-> g.oldPos, to |-> g.oldPos],
                          newRange |-> [from |-> g.newPos, to |-> g.newPos],
                          oldText |-> <<>>, newText |-> <<>>,
                          status |-> "pending"]
                    ELSE g.currentChunk[1]
             next == IF d.op = "DELETE"
                     THEN [cur EXCEPT !.oldText = @ \o d.text,
                                      !.oldRange.to = g.oldPos + textLength]
                     ELSE [cur EXCEPT !.newText = @ \o d.text,
                                      !.newRange.to = g.newPos + textLength]
         IN [g EXCEPT
               !.currentChunk = <<next>>,
               !.idCalls = IF open THEN @ + 1 ELSE @,
               !.unchangedCount = 0,
               !.oldPos = IF d.op = "DELETE" THEN @ + textLength ELSE @,
               !.newPos = IF d.op = "INSERT" THEN @ + textLength ELSE @]

RECURSIVE GroupLoop(_, _, _, _)
GroupLoop(g, diffsLeft, minGapSize, ids) ==
    IF diffsLeft = <<>> THEN g
    ELSE GroupLoop(GroupStep(g, Head(diffsLeft), minGapSize, ids),
                   Tail(diffsLeft), minGapSize, ids)

\* a grouping that also emits the unchanged tail after the last chunk
groupDiffsIntoChunksTail(diffsIn, minGapSize, ids) ==
    LET g == GroupLoop(GroupStart, diffsIn, minGapSize, ids)
    IN IF g.currentChunk # <<>>
       THEN finalizeChunk(g.currentChunk[1], g.chunks)
       ELSE finalizeChunk([id |-> UnknownId,
                           oldRange |-> [from |-> g.oldPos, to |-> g.oldPos],
                           newRange |-> [from |-> g.newPos, to |-> g.newPos],
                           oldText |-> <<>>, newText |-> <<>>,
                           status |-> "pending"], g.chunks)

\* a grouping that forgets the chunk still open after the last op
groupDiffsIntoChunksNoFlush(diffsIn, minGapSize, ids) ==
    GroupLoop(GroupStart, diffsIn, minGapSize, ids).chunks

groupDiffsIntoChunks(diffsIn, minGapSize, ids) ==
    LET g == GroupLoop(GroupStart, diffsIn, minGapSize, ids)
    IN IF g.currentChunk # <<>>
       THEN finalizeChunk(g.currentChunk[1], g.chunks)
       ELSE g.chunks

\* computeDiffChunks(OldOf(diffsIn), NewOf(diffsIn), minGapSize), diffsIn being
\* the script the diff library returned for that pair
computeDiffChunks(diffsIn, minGapSize, ids) ==
    groupDiffsIntoChunks(diffsIn, minGapSize, ids)

\* a sort with the comparator reversed (a.oldRange.from - b.oldRange.from)
RECURSIVE InsertAsc(_, _)
InsertAsc(c, sorted) ==
    IF sorted = <<>> THEN <<c>>
    ELSE IF Head(sorted).oldRange.from <= c.oldRange.from
         THEN <<Head(sorted)>> \o InsertAsc(c, Tail(sorted))
         ELSE <<c>> \o sorted

RECURSIVE SortAscByFrom(_)
SortAscByFrom(cs) ==
    IF cs = <<>> THEN <<>>
    ELSE InsertAsc(cs[Len(cs)], SortAscByFrom(SubSeq(cs, 1, Len(cs) - 1)))

\* Array.prototype.sort((a, b) => b.oldRange.from - a.oldRange.from): stable
RECURSIVE InsertDesc(_, _)
InsertDesc(c, sorted) ==
    IF sorted = <<>> THEN <<c>>
    ELSE IF Head(sorted).oldRange.from >= c.oldRange.from
         THEN <<Head(sorted)>> \o InsertDesc(c, Tail(sorted))
         ELSE <<c>> \o sorted

\* no sort at all: the chunks are applied in the order of the list
KeepOrder(cs) == cs

RECURSIVE SortDescByFrom(_)
SortDescByFrom(cs) ==
    IF cs = <<>> THEN <<>>
    ELSE InsertDesc(cs[Len(cs)], SortDescByFrom(SubSeq(cs, 1, Len(cs) - 1)))

\* the accepted set built without the filter on d.accepted
AnyDecisionIds(decs) == {decs[i].chunkId : i \in 1..Len(decs)}

\* new Set(decisions.filter(d => d.accepted).map(d => d.chunkId))
AcceptedIds(decs) == {decs[i].chunkId : i \in {j \in 1..Len(decs) : decs[j].accepted}}

RECURSIVE ApplyLoop(_, _)
ApplyLoop(res, sortedChunks) ==
    IF sortedChunks = <<>> THEN res
    ELSE LET chunk == Head(sortedChunks)
             before == substring(res, 0, chunk.oldRange.from)
             after == substringFrom(res, chunk.oldRange.to)
         IN ApplyLoop(before \o chunk.newText \o after, Tail(sortedChunks))

applyChunks(original, cs, decs) ==
    LET acceptedIds == AcceptedIds(decs)
        sortedChunks == SortDescByFrom(SelectSeq(cs, LAMBDA c : c.id \in acceptedIds))
    IN ApplyLoop(original, sortedChunks)

\* ------------------------------------------------------------------------
\* diff-state.ts
\* ------------------------------------------------------------------------

\* a nullable value: <<>> is null, <<x>> holds x
NULL == <<>>

\* StateEffect values: type is the effect, id the chunk id of acceptChunk /
\* rejectChunk, show the InlineDiffState of showInlineDiffEffect
Effect(type, id, show) == [type |-> type, id |-> id, show |-> show]

showInlineDiffEffect(s) == Effect("showInlineDiff", "", <<s>>)

acceptChunkEffect(id) == Effect("acceptChunk", id, NULL)

rejectChunkEffect(id) == Effect("rejectChunk", id, NULL)

acceptAllChunksEffect == Effect("acceptAllChunks", "", NULL)

rejectAllChunksEffect == Effect("rejectAllChunks", "", NULL)

clearInlineDiffEffect == Effect("clearInlineDiff", "", NULL)

\* a status update that reopens a chunk already carrying the status
updateChunkStatusToggle(s, chunkId, status) ==
    [s EXCEPT !.chunks =
        [i \in 1..Len(s.chunks) |->
            IF s.chunks[i].id = chunkId
            THEN [s.chunks[i] EXCEPT !.status = IF @ = status THEN "pending" ELSE status]
            ELSE s.chunks[i]]]

\* a status update that does not compare the chunk id
updateChunkStatusAny(s, chunkId, status) ==
    [s EXCEPT !.chunks =
        [i \in 1..Len(s.chunks) |-> [s.chunks[i] EXCEPT !.status = status]]]

updateChunkStatus(s, chunkId, status) ==
    [s EXCEPT !.chunks =
        [i \in 1..Len(s.chunks) |->
            IF s.chunks[i].id = chunkId
            THEN [s.chunks[i] EXCEPT !.status = status]
            ELSE s.chunks[i]]]

\* accept-all / reject-all without the test on chunk.status
updateAllChunks(s, status) ==
    [s EXCEPT !.chunks =
        [i \in 1..Len(s.chunks) |-> [s.chunks[i] EXCEPT !.status = status]]]

\* acceptAllChunksEffect / rejectAllChunksEffect branch of update
updateAllPending(s, status) ==
    [s EXCEPT !.chunks =
        [i \in 1..Len(s.chunks) |->
            IF s.chunks[i].status = "pending"
            THEN [s.chunks[i] EXCEPT !.status = status]
            ELSE s.chunks[i]]]

\* one iteration of the third loop of inlineDiffStateField.update
ApplyEffect(s, effect) ==
    IF effect.type = "acceptChunk" THEN updateChunkStatus(s, effect.id, "accepted")
    ELSE IF effect.type = "rejectChunk" THEN updateChunkStatus(s, effect.id, "rejected")
    ELSE IF effect.type = "acceptAllChunks" THEN updateAllPending(s, "accepted")
    ELSE IF effect.type = "rejectAllChunks" THEN updateAllPending(s, "rejected")
    ELSE s

\* a third loop that walks the effects of the transaction from the last to
\* the first
RECURSIVE ApplyEffectsBackwards(_, _)
ApplyEffectsBackwards(s, effects) ==
    IF effects = <<>> THEN s
    ELSE ApplyEffect(ApplyEffectsBackwards(s, Tail(effects)), Head(effects))

RECURSIVE ApplyEffects(_, _)
ApplyEffects(s, effects) ==
    IF effects = <<>> THEN s
    ELSE ApplyEffects(ApplyEffect(s, Head(effects)), Tail(effects))

\* an update that keeps the session it has when another one is shown
inlineDiffStateFieldUpdateKeep(value, effects) ==
    LET shows == SelectSeq(effects, LAMBDA e : e.type = "showInlineDiff")
        clears == SelectSeq(effects, LAMBDA e : e.type = "clearInlineDiff")
    IN IF shows # <<>> /\ value = NULL THEN shows[1].show
       ELSE IF clears # <<>> THEN NULL
       ELSE IF value = NULL THEN NULL
       ELSE <<ApplyEffects(value[1], effects)>>

\* inlineDiffStateField.update(state, tr); value and result are nullable
inlineDiffStateFieldUpdate(value, effects) ==
    LET shows == SelectSeq(effects, LAMBDA e : e.type = "showInlineDiff")
        clears == SelectSeq(effects, LAMBDA e : e.type = "clearInlineDiff")
    IN IF shows # <<>> THEN shows[1].show
       ELSE IF clears # <<>> THEN NULL
       ELSE IF value = NULL THEN NULL
       ELSE <<ApplyEffects(value[1], effects)>>

getPendingChunksCount(value) ==
    IF value = NULL THEN 0
    ELSE Len(SelectSeq(value[1].chunks, LAMBDA c : c.status = "pending"))

\* a fully-processed test that wants at least one chunk
areAllChunksProcessedNonEmpty(value) ==
    IF value = NULL THEN FALSE
    ELSE /\ value[1].chunks # <<>>
         /\ \A i \in 1..Len(value[1].chunks) : value[1].chunks[i].status # "pending"

\* a processed test that is satisfied by one decided chunk
areSomeChunksProcessed(value) ==
    IF value = NULL THEN FALSE
    ELSE \E i \in 1..Len(value[1].chunks) : value[1].chunks[i].status # "pending"

\* a processed test without the `if (!state) return false` guard: nothing
\* is pending where there is no session
areAllChunksProcessedNull(value) ==
    IF value = NULL THEN TRUE
    ELSE \A i \in 1..Len(value[1].chunks) : value[1].chunks[i].status # "pending"

areAllChunksProcessed(value) ==
    IF value = NULL THEN FALSE
    ELSE \A i \in 1..Len(value[1].chunks) : value[1].chunks[i].status # "pending"

\* a filter that keeps every decided chunk, accepted or rejected
getDecidedChunks(value) ==
    IF value = NULL THEN <<>>
    ELSE SelectSeq(value[1].chunks, LAMBDA c : c.status # "pending")

getAcceptedChunks(value) ==
    IF value = NULL THEN <<>>
    ELSE SelectSeq(value[1].chunks, LAMBDA c : c.status = "accepted")

\* ------------------------------------------------------------------------
\* State
\* ------------------------------------------------------------------------

VARIABLES
    \* the pure pipeline: a script is grouped, then applied under decisions
    diffs, minGap, chunks, decisions, originalContent, result, pc,
    \* the editor: the value of inlineDiffStateField, the effects of the last
    \* transaction, the content of the reviewed file in the vault, the
    \* vault.modify calls that have not returned yet
    state, tr, file, inflight,
    \* since the last showInlineDiffEffect: calls of applyChunks and of
    \* vault.modify made by applyAcceptedChanges
    reconstructions, writes,
    \* number of openDiff requests received
    sessions,
    \* the openDiff handlers between vault.read and their dispatch: the old
    \* content each of them has read
    opening,
    \* history: the last showInlineDiffEffect replaced a session that had a
    \* pending chunk
    replaced,
    \* whether the reviewed file exists in the vault (file is its content)
    fileExists,
    \* the last reply of the openDiff handler
    reply,
    \* the value of decorationStateField: the ranges handed to the
    \* RangeSetBuilder, in order
    decorations,
    \* DiffView flow: the vault (path -> content, or NULL where no file is)
    vault,
    \* DiffView flow: one record per openDiff request, in order of arrival
    requests,
    \* McpServer: this.authToken ("" before the first start)
    authToken,
    \* McpServer: this.wss ("none", "open" after start, "closed" after stop)
    wss,
    \* McpServer: this.port, which names this.lockFilePath and
    \* this.legacyLockFilePath (0 before the first start)
    port,
    \* the lock files of the two IDE lock directories
    lockFiles,
    \* McpServer: this.connectedClients
    connectedClients,
    \* the last upgrade request and verifyClient's answer to it
    upgrade,
    \* the last call of config.onMessage
    onMessage,
    \* the WebSocket objects handed to the "connection" handler: readyState
    \* ("none" before the handler has seen the socket), whether the socket has
    \* emitted "error", and the calls of config.onDisconnection made for it
    sockets,
    \* the last call of broadcast: the sockets client.send was called on,
    \* each with the readyState it had
    sent

pureVars == <<diffs, minGap, chunks, decisions, originalContent, result, pc>>

editorVars ==
    <<state, tr, file, inflight, reconstructions, writes, sessions, opening, replaced,
      fileExists, reply, decorations>>

toolVars == <<vault, requests>>

serverVars ==
    <<authToken, wss, port, lockFiles, connectedClients, upgrade, onMessage, sockets,
      sent>>

vars == <<diffs, minGap, chunks, decisions, originalContent, result, pc,
          state, tr, file, inflight, reconstructions, writes, sessions, opening,
          replaced, fileExists, reply, decorations, vault, requests,
          authToken, wss, port, lockFiles, connectedClients, upgrade, onMessage,
          sockets, sent>>

MaxChunks == (MaxLen + 1) \div 2

IdSeqs == [1..MaxChunks -> IdSpace]

\* ------------------------------------------------------------------------
\* The pure pipeline
\* ------------------------------------------------------------------------

Decisions == [chunkId : IdSpace, accepted : BOOLEAN]

DecisionLists == {<<>>} \cup {<<d>> : d \in Decisions}
                 \cup {<<d, e>> : <<d, e>> \in Decisions \X Decisions}

\* the content applyChunks is handed: the content the chunks were computed
\* from, or that content after its last character was cut off underneath
Originals(old) == {old, SubSeq(old, 1, Len(old) - 1)}

EditorIdle ==
    /\ state = NULL
    /\ tr = <<>>
    /\ file = <<>>
    /\ inflight = <<>>
    /\ reconstructions = 0
    /\ writes = 0
    /\ sessions = 0
    /\ opening = <<>>
    /\ replaced = FALSE
    /\ fileExists = FALSE
    /\ reply = NULL
    /\ decorations = <<>>

\* no DiffView request was made
ToolIdle ==
    /\ vault = <<>>
    /\ requests = <<>>

\* the McpServer as constructed, never started
ServerIdle ==
    /\ authToken = ""
    /\ wss = "none"
    /\ port = 0
    /\ lockFiles = {}
    /\ connectedClients = {}
    /\ upgrade = NULL
    /\ onMessage = NULL
    /\ sockets = [c \in {"c1", "c2"} |-> [readyState |-> "none", errored |-> FALSE,
                                         onDisconnection |-> 0]]
    /\ sent = NULL

PureInit ==
    /\ diffs \in Scripts
    /\ minGap = 0
    /\ chunks = <<>>
    /\ decisions = <<>>
    /\ originalContent = <<>>
    /\ result = <<>>
    /\ pc = "input"
    /\ EditorIdle
    /\ ToolIdle
    /\ ServerIdle

\* computeDiffChunks(old, new, minGapSize)
Compute ==
    /\ pc = "input"
    /\ \E g \in GapSizes, ids \in IdSeqs :
          /\ minGap' = g
          /\ chunks' = computeDiffChunks(diffs, g, ids)
    /\ pc' = "grouped"
    /\ UNCHANGED <<diffs, decisions, originalContent, result>>
    /\ UNCHANGED <<editorVars, toolVars, serverVars>>

\* applyChunks(originalContent, chunks, decisions); it has no throw statement,
\* so every call returns a string
Apply ==
    /\ pc = "grouped"
    /\ \E decs \in DecisionLists, original \in Originals(OldOf(diffs)) :
          /\ decisions' = decs
          /\ originalContent' = original
          /\ result' = applyChunks(original, chunks, decs)
    /\ pc' = "returned"
    /\ UNCHANGED <<diffs, minGap, chunks>>
    /\ UNCHANGED <<editorVars, toolVars, serverVars>>

PureNext == Compute \/ Apply

PureSpec == PureInit /\ [][PureNext]_vars

\* ------------------------------------------------------------------------
\* groupDiffsIntoChunks on longer scripts: up to three edits separated by
\* unchanged runs shorter than, as long as, or longer than the gap
\* ------------------------------------------------------------------------

\* largest number of characters such a script carries (a filler run counts 1)
MaxGroupLen == 5

\* op texts: unchanged runs reach every explicit gap size
GroupTexts == UNION {[1..k -> Chars] : k \in 1..MaxGap}

GroupOps ==
    [op : OpKinds, text : GroupTexts] \cup {[op |-> "EQUAL", text |-> Filler]}

RECURSIVE GroupScriptsOfOps(_)
GroupScriptsOfOps(n) ==
    IF n = 0 THEN {<<>>}
    ELSE LET prev == GroupScriptsOfOps(n - 1)
         IN prev \cup
            {Append(s, o) : <<s, o>> \in
                {p \in prev \X GroupOps :
                    /\ Len(p[1]) = n - 1
                    /\ TotalWeight(p[1]) + Weight(p[2]) <= MaxGroupLen
                    /\ (p[1] # <<>> => MayFollow(p[1][Len(p[1])], p[2]))}}

GroupScripts == GroupScriptsOfOps(MaxGroupLen)

MaxGroupChunks == (MaxGroupLen + 1) \div 2

GroupIdSeqs == [1..MaxGroupChunks -> IdSpace]

GroupInit ==
    /\ diffs \in GroupScripts
    /\ minGap = 0
    /\ chunks = <<>>
    /\ decisions = <<>>
    /\ originalContent = <<>>
    /\ result = <<>>
    /\ pc = "input"
    /\ EditorIdle
    /\ ToolIdle
    /\ ServerIdle

\* groupDiffsIntoChunks(diffs, minGapSize)
Group ==
    /\ pc = "input"
    /\ \E g \in GapSizes, ids \in GroupIdSeqs :
          /\ minGap' = g
          /\ chunks' = groupDiffsIntoChunks(diffs, g, ids)
    /\ pc' = "grouped"
    /\ UNCHANGED <<diffs, decisions, originalContent, result>>
    /\ UNCHANGED <<editorVars, toolVars, serverVars>>

GroupSpec == GroupInit /\ [][Group]_vars

\* ------------------------------------------------------------------------
\* The editor: openDiff, the decision effects, createApplyDiffPlugin
\* ------------------------------------------------------------------------

\* openDiff requests served in one run
MaxSessions == 2

\* vault.modify calls that may be in flight at once
MaxInFlight == 2

FilePath == "note.md"

\* the documents the vault file starts with
InitialFiles == {<<"a">> \o Filler}

DecisionEffects ==
    {acceptChunkEffect(id) : id \in IdSpace \cup {UnknownId}}
    \cup {rejectChunkEffect(id) : id \in IdSpace \cup {UnknownId}}
    \cup {acceptAllChunksEffect, rejectAllChunksEffect}

\* the transactions dispatched from outside the commit: no effect at all (a
\* selection change, a keystroke) or the one decision effect a button of
\* ChunkControlWidget / DiffHeaderWidget dispatches
UserTransactions == {<<>>} \cup {<<e>> : e \in DecisionEffects}

\* clearDiff() reached before applyAcceptedChanges first awaits, that is while
\* createApplyDiffPlugin.update is still running: EditorView.dispatch refuses
\* a call made during an update ("Calls to EditorView.update are not allowed
\* while an update is in progress"), the async function's promise rejects and
\* the field keeps its value
clearDiffInUpdate(value) == value

\* the decisions applyAcceptedChanges builds from the accepted chunks
AcceptedDecisions(value) ==
    LET acceptedChunks == getAcceptedChunks(value)
    IN [i \in 1..Len(acceptedChunks) |->
           [chunkId |-> acceptedChunks[i].id, accepted |-> TRUE]]

\* applyAcceptedChanges(diffState) up to its first await; value is the field
\* after the transaction, r/w the counters before the call.  When
\* getAbstractFileByPath finds no file, no await is reached before clearDiff()
applyAcceptedChanges(value, r, w, inflightNow) ==
    IF getAcceptedChunks(value) = <<>>
    THEN /\ state' = clearDiffInUpdate(value)
         /\ inflight' = inflightNow
         /\ reconstructions' = r
         /\ writes' = w
    ELSE LET finalContent == applyChunks(value[1].originalContent,
                                         value[1].chunks,
                                         AcceptedDecisions(value))
         IN IF fileExists
            THEN /\ Len(inflightNow) < MaxInFlight
                 /\ state' = value
                 /\ inflight' = Append(inflightNow, finalContent)
                 /\ reconstructions' = r + 1
                 /\ writes' = w + 1
            ELSE /\ r < MaxInFlight
                 /\ state' = clearDiffInUpdate(value)
                 /\ inflight' = inflightNow
                 /\ reconstructions' = r + 1
                 /\ writes' = w

\* one range handed to RangeSetBuilder.add: a widget (from = to) with the
\* arguments of its constructor, or a mark
Range(kind, id, index, pendingCount, totalCount, from, to, text) ==
    [kind |-> kind, id |-> id, index |-> index, pendingCount |-> pendingCount,
     totalCount |-> totalCount, from |-> from, to |-> to, text |-> text]

\* Decoration.none
DecorationNone == <<>>

\* builder.add(0, 0, Decoration.widget({widget: new DiffHeaderWidget(...)}));
\* the counter of the widget reads "<pendingCount> chunks remaining"
DiffHeaderWidget(pendingCount, totalCount) ==
    Range("header", "", 0, pendingCount, totalCount, 0, 0, <<>>)

\* new ChunkControlWidget(chunkId, chunkIndex, totalChunks, view) at `from`
ChunkControlWidget(chunkId, chunkIndex, totalChunks, from) ==
    Range("control", chunkId, chunkIndex, 0, totalChunks, from, from, <<>>)

\* addChunkDecorations(builder, chunk): the removed text and the mark of the
\* replaced range, then the added text
addChunkDecorations(chunk) ==
    (IF chunk.oldText # <<>>
     THEN <<Range("removed", "", 0, 0, 0, chunk.oldRange.from, chunk.oldRange.from,
                  chunk.oldText)>>
          \o (IF chunk.oldRange.from # chunk.oldRange.to
              THEN <<Range("mark", "", 0, 0, 0, chunk.oldRange.from,
                           chunk.oldRange.to, <<>>)>>
              ELSE <<>>)
     ELSE <<>>)
    \o (IF chunk.newText # <<>>
        THEN <<Range("added", "", 0, 0, 0, chunk.oldRange.from, chunk.oldRange.from,
                     chunk.newText)>>
        ELSE <<>>)

\* pendingChunks.forEach((chunk, index) => ...), from `index` on (0-based)
RECURSIVE forEachPending(_, _, _)
forEachPending(pendingChunks, index, pendingCount) ==
    IF index >= Len(pendingChunks) THEN <<>>
    ELSE LET chunk == pendingChunks[index + 1]
         IN <<ChunkControlWidget(chunk.id, index, pendingCount, chunk.oldRange.from)>>
            \o addChunkDecorations(chunk)
            \o forEachPending(pendingChunks, index + 1, pendingCount)

\* a generateDecorations that walks every chunk of the session, decided or not
generateDecorationsAll(value) ==
    IF value = NULL THEN DecorationNone
    ELSE LET pendingCount == getPendingChunksCount(value)
         IN <<DiffHeaderWidget(pendingCount, Len(value[1].chunks))>>
            \o forEachPending(value[1].chunks, 0, pendingCount)

\* generateDecorations(state, view), value being the field of that state
generateDecorations(value) ==
    IF value = NULL THEN DecorationNone
    ELSE LET pendingCount == getPendingChunksCount(value)
             pendingChunks == SelectSeq(value[1].chunks,
                                        LAMBDA c : c.status = "pending")
         IN <<DiffHeaderWidget(pendingCount, Len(value[1].chunks))>>
            \o forEachPending(pendingChunks, 0, pendingCount)

\* hasStateChange of decorationStateField.update
hasStateChange(effects) ==
    \E i \in 1..Len(effects) :
        effects[i].type \in {"showInlineDiff", "acceptChunk", "rejectChunk",
                             "acceptAllChunks", "rejectAllChunks", "clearInlineDiff"}

\* the module-level editorViewRef is set: the constructor of viewRefPlugin
\* ran when the view of the reviewed file was created, and that view is not
\* destroyed while it dispatches
editorViewRef == TRUE

\* decorationStateField.update(decorations, tr); value is the field
\* inlineDiffStateField of tr.state
decorationStateFieldUpdate(old, value, effects) ==
    IF value = NULL THEN DecorationNone
    ELSE IF hasStateChange(effects) /\ editorViewRef THEN generateDecorations(value)
    ELSE old

\* view.dispatch({effects}): inlineDiffStateField.update and
\* decorationStateField.update, then the update method of the plugin of
\* createApplyDiffPlugin
Dispatch(effects, inflightNow) ==
    LET value == inlineDiffStateFieldUpdate(state, effects)
        shown == \E i \in 1..Len(effects) : effects[i].type = "showInlineDiff"
        r == IF shown THEN 0 ELSE reconstructions
        w == IF shown THEN 0 ELSE writes
    IN /\ tr' = effects
       /\ decorations' = decorationStateFieldUpdate(decorations, value, effects)
       /\ replaced' = IF shown THEN getPendingChunksCount(state) > 0 ELSE replaced
       /\ IF areAllChunksProcessed(value)
          THEN applyAcceptedChanges(value, r, w, inflightNow)
          ELSE /\ state' = value
               /\ inflight' = inflightNow
               /\ reconstructions' = r
               /\ writes' = w

RemoveAt(s, i) == SubSeq(s, 1, i - 1) \o SubSeq(s, i + 1, Len(s))

\* the arguments of an openDiff request as the handler tests them: whether
\* old_file_path / new_file_path are given, and what new_file_contents is
ContentsKinds == {"null", "undefined", "empty", "text"}

Requests == [old : BOOLEAN, new : BOOLEAN, contents : ContentsKinds]

\* reply({error: formatErrorResponse(code, ...)})
ErrorReply(code) == <<[error |-> code, result |-> ""]>>

\* reply({result: formatToolResponse(text)})
ResultReply(text) == <<[error |-> "", result |-> text]>>

\* !old_file_path && !new_file_path
NoPaths(req) == ~req.old /\ ~req.new

\* !old_file_path && new_file_path
IsCreation(req) == ~req.old /\ req.new

\* a test of new_file_contents that misses undefined
MissingContentsNullOnly(req) == req.contents = "null"

\* new_file_contents === null || new_file_contents === undefined
MissingContents(req) == req.contents \in {"null", "undefined"}

\* old_file_path && (!new_file_contents || new_file_contents.length === 0)
IsDeletion(req) == req.old /\ req.contents # "text"

\* the requests that reach the file modification branch
IsModification(req) == req.old /\ req.contents = "text"

\* the content a creation request carries
NewFileContents(req) == IF req.contents = "empty" THEN {<<>>} ELSE InitialFiles

\* the validation of the handler: its two early returns
OpenDiffInvalid ==
    /\ sessions < MaxSessions
    /\ sessions' = sessions + 1
    /\ \E req \in Requests :
          /\ NoPaths(req) \/ (IsCreation(req) /\ MissingContents(req))
          /\ reply' = ErrorReply("INVALID_PARAMS")
    /\ UNCHANGED <<state, tr, file, inflight, reconstructions, writes, opening,
                   replaced, fileExists, decorations>>
    /\ UNCHANGED <<pureVars, toolVars, serverVars>>

\* the file creation branch: vault.create writes the file at once; it throws
\* when the path is taken and the handler's catch replies INTERNAL_ERROR
OpenDiffCreate ==
    /\ sessions < MaxSessions
    /\ sessions' = sessions + 1
    /\ \E req \in Requests :
          /\ IsCreation(req) /\ ~MissingContents(req)
          /\ IF fileExists
             THEN /\ reply' = ErrorReply("INTERNAL_ERROR")
                  /\ UNCHANGED <<file, fileExists>>
             ELSE /\ file' \in NewFileContents(req)
                  /\ fileExists' = TRUE
                  /\ reply' = ResultReply("FILE_CREATED")
    /\ UNCHANGED <<state, tr, inflight, reconstructions, writes, opening, replaced,
                   decorations>>
    /\ UNCHANGED <<pureVars, toolVars, serverVars>>

\* the file deletion branch: vault.delete removes the file at once
OpenDiffDelete ==
    /\ sessions < MaxSessions
    /\ sessions' = sessions + 1
    /\ \E req \in Requests :
          /\ IsDeletion(req)
          /\ IF fileExists
             THEN /\ file' = <<>>
                  /\ fileExists' = FALSE
                  /\ reply' = ResultReply("FILE_DELETED")
             ELSE /\ reply' = ErrorReply("INVALID_PARAMS")
                  /\ UNCHANGED <<file, fileExists>>
    /\ UNCHANGED <<state, tr, inflight, reconstructions, writes, opening, replaced,
                   decorations>>
    /\ UNCHANGED <<pureVars, toolVars, serverVars>>

\* the file modification branch up to the end of
\* `await this.app.vault.read(file)`; without the file it replies
\* INVALID_PARAMS (file not found)
OpenDiffRead ==
    /\ sessions < MaxSessions
    /\ sessions' = sessions + 1
    /\ \E req \in Requests :
          /\ IsModification(req)
          /\ IF fileExists
             THEN /\ opening' = Append(opening, file)
                  /\ UNCHANGED reply
             ELSE /\ reply' = ErrorReply("INVALID_PARAMS")
                  /\ UNCHANGED opening
    /\ UNCHANGED <<state, tr, file, inflight, reconstructions, writes, replaced,
                   fileExists, decorations>>
    /\ UNCHANGED <<pureVars, toolVars, serverVars>>

\* the rest of the modification branch, after the 100 ms timer:
\* computeDiffChunks on the content read (a pure function of it and of
\* new_file_contents), the dispatch of showInlineDiffEffect and the reply
OpenDiffShow ==
    /\ \E i \in 1..Len(opening) :
          /\ \E d \in DiffMain(opening[i]), ids \in IdSeqs :
                /\ NewOf(d) # <<>>
                /\ LET cs == computeDiffChunks(d, DefaultMinGapSize, ids)
                       s == [filePath |-> FilePath, chunks |-> cs,
                             originalContent |-> opening[i],
                             targetContent |-> NewOf(d)]
                   IN Dispatch(<<showInlineDiffEffect(s)>>, inflight)
          /\ opening' = RemoveAt(opening, i)
    /\ reply' = ResultReply("DIFF_SHOWN")
    /\ UNCHANGED <<file, sessions, fileExists>>
    /\ UNCHANGED <<pureVars, toolVars, serverVars>>

\* a widget's click handler, or any other transaction of the editor
UserDispatch ==
    /\ \E effects \in UserTransactions : Dispatch(effects, inflight)
    /\ UNCHANGED <<file, sessions, opening, fileExists, reply>>
    /\ UNCHANGED <<pureVars, toolVars, serverVars>>

\* app.vault.modify returns (the file then exists with the content written)
\* or throws; applyAcceptedChanges resumes and calls clearDiff()
ModifyDone ==
    /\ \E i \in 1..Len(inflight), ok \in BOOLEAN :
          /\ file' = IF ok THEN inflight[i] ELSE file
          /\ fileExists' = IF ok THEN TRUE ELSE fileExists
          /\ Dispatch(<<clearInlineDiffEffect>>, RemoveAt(inflight, i))
    /\ UNCHANGED <<sessions, opening, reply>>
    /\ UNCHANGED <<pureVars, toolVars, serverVars>>

Init ==
    /\ diffs = <<>>
    /\ minGap = 0
    /\ chunks = <<>>
    /\ decisions = <<>>
    /\ originalContent = <<>>
    /\ result = <<>>
    /\ pc = "idle"
    /\ state = NULL
    /\ tr = <<>>
    /\ file \in InitialFiles
    /\ inflight = <<>>
    /\ reconstructions = 0
    /\ writes = 0
    /\ sessions = 0
    /\ opening = <<>>
    /\ replaced = FALSE
    /\ fileExists = TRUE
    /\ reply = NULL
    /\ decorations = <<>>
    /\ ToolIdle
    /\ ServerIdle

Next ==
    \/ OpenDiffInvalid
    \/ OpenDiffCreate
    \/ OpenDiffDelete
    \/ OpenDiffRead
    \/ OpenDiffShow
    \/ UserDispatch
    \/ ModifyDone

Spec == Init /\ [][Next]_vars

\* ------------------------------------------------------------------------
\* Properties of the pure pipeline (PureSpec)
\* ------------------------------------------------------------------------

\* ids that some decision marks accepted: true
MarkedAccepted ==
    {id \in IdSpace : \E j \in 1..Len(decisions) :
        decisions[j].chunkId = id /\ decisions[j].accepted}

\* applyChunks returned for the content the chunks were computed from
ReturnedForOld == pc = "returned" /\ originalContent = OldOf(diffs)

\* the original with the spans of the chunks in `accepted` replaced, every
\* offset taken in the original; cs is ascending and non-overlapping
RECURSIVE Spliced(_, _, _, _)
Spliced(original, cs, accepted, pos) ==
    IF cs = <<>> THEN SubSeq(original, pos + 1, Len(original))
    ELSE LET c == Head(cs)
         IN SubSeq(original, pos + 1, c.oldRange.from)
            \o (IF c.id \in accepted
                THEN c.newText
                ELSE SubSeq(original, c.oldRange.from + 1, c.oldRange.to))
            \o Spliced(original, Tail(cs), accepted, c.oldRange.to)

\* C1 (round trip): when every chunk of computeDiffChunks(old, new, minGapSize)
\* is marked accepted, applyChunks(old, chunks, decisions) is new.
C1_RoundTrip ==
    (ReturnedForOld /\ \A i \in 1..Len(chunks) : chunks[i].id \in MarkedAccepted)
        => result = NewOf(diffs)

\* C2 (partial acceptance): applyChunks returns the original with exactly the
\* spans [oldRange.from, oldRange.to) of the chunks marked accepted replaced
\* by their newText, offsets measured in the unmodified original, and the
\* span of every other chunk as it was.
C2_PartialAcceptance ==
    ReturnedForOld => result = Spliced(originalContent, chunks, MarkedAccepted, 0)

\* two chunks, the first accepted with a replacement of another length, the
\* second named by a decision with accepted: false
C2_Witness ==
    /\ ReturnedForOld
    /\ Len(chunks) = 2
    /\ chunks[1].id \in MarkedAccepted
    /\ chunks[2].id \notin MarkedAccepted
    /\ \E j \in 1..Len(decisions) :
          decisions[j].chunkId = chunks[2].id /\ ~decisions[j].accepted
    /\ Len(chunks[1].newText) # chunks[1].oldRange.to - chunks[1].oldRange.from
    /\ result # originalContent

\* C3 (identity): when decisions is empty or every decision has
\* accepted: false, applyChunks(old, chunks, decisions) is old.
C3_Identity ==
    (ReturnedForOld /\ \A j \in 1..Len(decisions) : ~decisions[j].accepted)
        => result = originalContent

\* a changed document whose chunk is named by a decision with accepted: false
C3_Witness ==
    /\ ReturnedForOld
    /\ chunks # <<>>
    /\ decisions # <<>>
    /\ \A j \in 1..Len(decisions) : ~decisions[j].accepted
    /\ \E j \in 1..Len(decisions) : decisions[j].chunkId = chunks[1].id
    /\ NewOf(diffs) # OldOf(diffs)
    /\ result = OldOf(diffs)

\* C10 (integrity failure): applyChunks returns a string only if the oldRange
\* of every accepted chunk lies within the original content; otherwise it
\* aborts with an error.
C10_IntegrityFailure ==
    pc = "returned" =>
        \A i \in 1..Len(chunks) :
            chunks[i].id \in MarkedAccepted
                => chunks[i].oldRange.to <= Len(originalContent)

\* ------------------------------------------------------------------------
\* Properties of the editor (Spec)
\* ------------------------------------------------------------------------

DecisionTypes == {"acceptChunk", "rejectChunk", "acceptAllChunks", "rejectAllChunks"}

\* the transaction carries decision effects only
IsDecisionTransaction(t) ==
    t # <<>> /\ \A i \in 1..Len(t) : t[i].type \in DecisionTypes

\* the transaction is one acceptChunk or rejectChunk effect
IsChunkCommand(t) == Len(t) = 1 /\ t[1].type \in {"acceptChunk", "rejectChunk"}

StatusOf(value, i) == value[1].chunks[i].status

HasStatus(value, status) ==
    value # NULL /\ \E i \in 1..Len(value[1].chunks) : StatusOf(value, i) = status

\* C4 (terminal decisions): an acceptChunk or rejectChunk command changes the
\* status of a chunk if and only if it names that chunk and the chunk is
\* pending; an accepted or rejected chunk keeps its status.
C4_TerminalDecisions ==
    [][(state # NULL /\ state' # NULL /\ IsChunkCommand(tr'))
        => \A i \in 1..Len(state[1].chunks) :
              (StatusOf(state', i) # StatusOf(state, i))
                 <=> (state[1].chunks[i].id = tr'[1].id /\ StatusOf(state, i) = "pending")]_vars

\* C5 (never back to pending): within a session no accept, reject, accept-all
\* or reject-all command moves an accepted or rejected chunk to pending.
C5_NeverBackToPending ==
    [][(state # NULL /\ state' # NULL /\ IsDecisionTransaction(tr'))
        => \A i \in 1..Len(state[1].chunks) :
              StatusOf(state, i) # "pending" => StatusOf(state', i) # "pending"]_vars

\* a reject command naming a chunk that is decided, next to a decided chunk
\* of the other status
C5_Witness ==
    /\ state # NULL
    /\ IsChunkCommand(tr)
    /\ tr[1].type = "rejectChunk"
    /\ \E i \in 1..Len(state[1].chunks) :
          state[1].chunks[i].id = tr[1].id /\ StatusOf(state, i) = "rejected"
    /\ HasStatus(state, "accepted")

\* the chunks after accept-all / reject-all: pending ones take the status,
\* the others are as before
AllPendingSetTo(value, status) ==
    [i \in 1..Len(value[1].chunks) |->
        IF StatusOf(value, i) = "pending"
        THEN [value[1].chunks[i] EXCEPT !.status = status]
        ELSE value[1].chunks[i]]

\* C6 (accept-all / reject-all): acceptAllChunksEffect sets every pending
\* chunk to accepted, rejectAllChunksEffect sets every pending chunk to
\* rejected, and both leave every accepted or rejected chunk untouched.
C6_AllPendingOnly ==
    [][/\ (state # NULL /\ state' # NULL /\ tr' = <<acceptAllChunksEffect>>)
            => state'[1].chunks = AllPendingSetTo(state, "accepted")
       /\ (state # NULL /\ state' # NULL /\ tr' = <<rejectAllChunksEffect>>)
            => state'[1].chunks = AllPendingSetTo(state, "rejected")]_vars

\* accept-all was dispatched in a session with a chunk rejected one by one
C6_Witness ==
    /\ tr = <<acceptAllChunksEffect>>
    /\ HasStatus(state, "rejected")
    /\ HasStatus(state, "accepted")

\* C7 (unknown id): an acceptChunk or rejectChunk command naming an id that no
\* chunk of the session carries leaves the session as it was and triggers no
\* commit: no reconstruction, no write.
C7_UnknownIdNoOp ==
    [][(/\ state # NULL
        /\ IsChunkCommand(tr')
        /\ \A i \in 1..Len(state[1].chunks) : state[1].chunks[i].id # tr'[1].id)
        => /\ state' = state
           /\ reconstructions' = reconstructions
           /\ writes' = writes
           /\ inflight' = inflight]_vars

PendingIndexes(value) ==
    {i \in 1..Len(value[1].chunks) : StatusOf(value, i) = "pending"}

\* C8 (queries): areAllChunksProcessed is true exactly when a session exists
\* and none of its chunks is pending; a session without chunks is fully
\* processed; for an existing session getPendingChunksCount is 0 exactly when
\* areAllChunksProcessed holds.
C8_FullyProcessed ==
    /\ areAllChunksProcessed(state) <=> (state # NULL /\ PendingIndexes(state) = {})
    /\ (state # NULL /\ state[1].chunks = <<>>) => areAllChunksProcessed(state)
    /\ state # NULL =>
          /\ getPendingChunksCount(state) = Cardinality(PendingIndexes(state))
          /\ (getPendingChunksCount(state) = 0 <=> areAllChunksProcessed(state))
    /\ state = NULL => getPendingChunksCount(state) = 0

\* a session that was opened without any chunk
C8_Witness ==
    /\ state # NULL
    /\ state[1].chunks = <<>>
    /\ areAllChunksProcessed(state)
    /\ getPendingChunksCount(state) = 0

\* C9 (commit once): within a session applyChunks is called at most once and
\* vault.modify is called at most once.
C9_CommitOnce == reconstructions <= 1 /\ writes <= 1

\* ------------------------------------------------------------------------
\* Properties of groupDiffsIntoChunks (GroupSpec)
\* ------------------------------------------------------------------------

Grouped == pc = "grouped"

\* the ops of the script that are edits
EditIndexes == {j \in 1..Len(diffs) : diffs[j].op # "EQUAL"}

\* C15 (order): the chunks of groupDiffsIntoChunks are ascending by
\* oldRange.from, every range has from <= to, and consecutive chunks do not
\* overlap in oldRange nor in newRange (chunk[i].to <= chunk[i+1].from).
C15_SortedDisjoint ==
    Grouped =>
        /\ \A i \in 1..Len(chunks) :
              /\ chunks[i].oldRange.from <= chunks[i].oldRange.to
              /\ chunks[i].newRange.from <= chunks[i].newRange.to
        /\ \A i \in 1..(Len(chunks) - 1) :
              /\ chunks[i].oldRange.from <= chunks[i + 1].oldRange.from
              /\ chunks[i].oldRange.to <= chunks[i + 1].oldRange.from
              /\ chunks[i].newRange.to <= chunks[i + 1].newRange.from

\* three chunks, each strictly after the one before in both contents
C15_Witness ==
    /\ Grouped
    /\ Len(chunks) = MaxGroupChunks
    /\ \A i \in 1..(Len(chunks) - 1) :
          /\ chunks[i].oldRange.to < chunks[i + 1].oldRange.from
          /\ chunks[i].newRange.to < chunks[i + 1].newRange.from
    /\ \E i \in 1..Len(chunks) : chunks[i].oldRange.from < chunks[i].oldRange.to
    /\ \E i \in 1..Len(chunks) : chunks[i].newRange.from < chunks[i].newRange.to

\* C16 (literal substrings): for every chunk oldText is
\* old[oldRange.from, oldRange.to) and newText is new[newRange.from,
\* newRange.to), so the width of each range is the length of its text.
C16_LiteralSubstrings ==
    Grouped =>
        \A i \in 1..Len(chunks) :
            /\ chunks[i].oldText =
                  SubSeq(OldOf(diffs), chunks[i].oldRange.from + 1, chunks[i].oldRange.to)
            /\ chunks[i].newText =
                  SubSeq(NewOf(diffs), chunks[i].newRange.from + 1, chunks[i].newRange.to)
            /\ chunks[i].oldRange.to - chunks[i].oldRange.from = Len(chunks[i].oldText)
            /\ chunks[i].newRange.to - chunks[i].newRange.from = Len(chunks[i].newText)

\* the edit op j opens a chunk: it is the first edit of the script, or the
\* unchanged run in front of it is at least gap characters long
OpensChunk(j, gap) ==
    /\ j \in EditIndexes
    /\ \/ \A i \in 1..(j - 1) : i \notin EditIndexes
       \/ (j > 1 /\ diffs[j - 1].op = "EQUAL" /\ Len(diffs[j - 1].text) >= gap)

\* old and new offset at which op j starts
StartOf(j) ==
    <<Len(OldOf(SubSeq(diffs, 1, j - 1))), Len(NewOf(SubSeq(diffs, 1, j - 1)))>>

C18_KindClassification ==
    Grouped =>
        \A i \in 1..Len(chunks) :
            /\ chunks[i].type = "change"
                  <=> (chunks[i].oldText # <<>> /\ chunks[i].newText # <<>>)
            /\ chunks[i].type = "insert"
                  <=> (chunks[i].oldText = <<>> /\ chunks[i].newText # <<>>)
            /\ chunks[i].type = "delete"
                  <=> (chunks[i].oldText # <<>> /\ chunks[i].newText = <<>>)
            /\ chunks[i].status = "pending"

\* one script grouped under the default gap into a change chunk followed by
\* an insert chunk
C18_Witness ==
    /\ Grouped
    /\ minGap = DefaultMinGapSize
    /\ Len(chunks) = 2
    /\ chunks[1].type = "change"
    /\ chunks[2].type = "insert"
    /\ chunks[2].status = "pending"

\* C19 (no-op diff): a script of EQUAL ops only gives no chunk, and every
\* chunk holds at least one DELETE or INSERT op (unchanged text is never a
\* chunk of its own).
C19_NoOpDiff ==
    Grouped =>
        /\ EditIndexes = {} => chunks = <<>>
        /\ Len(chunks) <= Cardinality(EditIndexes)
        /\ \A i \in 1..Len(chunks) :
              chunks[i].oldText # <<>> \/ chunks[i].newText # <<>>

\* the script of a content diffed with itself was grouped
C19_Witness ==
    /\ Grouped
    /\ diffs # <<>>
    /\ EditIndexes = {}
    /\ OldOf(diffs) = NewOf(diffs)
    /\ chunks = <<>>

\* C20 (unique ids): no two chunks returned by one computeDiffChunks call
\* carry the same id, whatever Date.now() and Math.random() return.
C20_UniqueIds ==
    Grouped =>
        \A i, j \in 1..Len(chunks) : i # j => chunks[i].id # chunks[j].id

\* ------------------------------------------------------------------------
\* Properties of the commit (Spec)
\* ------------------------------------------------------------------------

\* the step dispatched the transaction tr' (every step does, except the one
\* in which an openDiff handler reads the file)
IsDispatch == sessions' = sessions

\* the step dispatched the showInlineDiffEffect of an openDiff handler
IsShow == Len(opening') < Len(opening)

C12_DiscardClears ==
    [][LET value == inlineDiffStateFieldUpdate(state, tr')
       IN (IsDispatch /\ areAllChunksProcessed(value) /\ getAcceptedChunks(value) = <<>>)
            => (state' = NULL /\ inflight' = inflight)]_vars

\* an accepted chunk's recorded offsets lie outside the content the file has
\* now: the session is stale
IntegrityError(value) ==
    /\ value # NULL
    /\ \E i \in 1..Len(value[1].chunks) :
          /\ value[1].chunks[i].status = "accepted"
          /\ value[1].chunks[i].oldRange.to > Len(file)

\* C13 (failed commit): when the commit of a fully processed session meets an
\* integrity error, nothing is written, and the session with its decisions
\* stays in the field (a later clear does not remove it).
C13_FailedCommitKeepsSession ==
    [][LET value == inlineDiffStateFieldUpdate(state, tr')
       IN /\ (IsDispatch /\ areAllChunksProcessed(value) /\ IntegrityError(value))
                => (inflight' = inflight /\ state' = value)
          /\ (IsDispatch /\ areAllChunksProcessed(state) /\ IntegrityError(state)
                /\ tr' = <<clearInlineDiffEffect>>)
                => state' = state]_vars

\* C14 (one live session): a showInlineDiffEffect dispatched while the
\* session in the field has a pending chunk replaces that session by the
\* shown one; nothing was computed or written from the replaced session, and
\* the step issues no write.
C14_ShowReplaces ==
    [][(IsShow /\ state # NULL /\ PendingIndexes(state) # {})
        => /\ reconstructions = 0
           /\ writes = 0
           /\ Len(tr') = 1
           /\ state' = tr'[1].show
           /\ state'[1].originalContent \in {opening[i] : i \in 1..Len(opening)}
           /\ inflight' = inflight
           /\ reconstructions' = 0
           /\ writes' = 0]_vars

\* the second review was shown over a first one that still had a pending
\* chunk; the first review's content was never written
C14_Witness ==
    /\ replaced
    /\ sessions = MaxSessions
    /\ Len(tr) = 1
    /\ tr[1].type = "showInlineDiff"
    /\ state = tr[1].show
    /\ HasStatus(state, "pending")
    /\ inflight = <<>>
    /\ file \in InitialFiles

\* ------------------------------------------------------------------------
\* Frame of the decision commands (Spec)
\* ------------------------------------------------------------------------

\* a chunk without its status
Unstatused(c) == [c EXCEPT !.status = "pending"]

\* the chunk i of value is targeted by the one-effect transaction t
Targeted(value, i, t) ==
    IF t[1].type \in {"acceptChunk", "rejectChunk"}
    THEN value[1].chunks[i].id = t[1].id
    ELSE StatusOf(value, i) = "pending"

\* C21 (frame): a decision command leaves filePath, originalContent,
\* targetContent, the number and order of the chunks and every chunk's id,
\* type, ranges and texts as they were, and leaves the status of every chunk
\* it does not target as it was.
C21_DecisionFrame ==
    [][(IsDispatch /\ state # NULL /\ state' # NULL /\ IsDecisionTransaction(tr'))
        => /\ state'[1].filePath = state[1].filePath
           /\ state'[1].originalContent = state[1].originalContent
           /\ state'[1].targetContent = state[1].targetContent
           /\ Len(state'[1].chunks) = Len(state[1].chunks)
           /\ \A i \in 1..Len(state[1].chunks) :
                 /\ Unstatused(state'[1].chunks[i]) = Unstatused(state[1].chunks[i])
                 /\ ~Targeted(state, i, tr') => StatusOf(state', i) = StatusOf(state, i)]_vars

\* an accept command decided one chunk of a session of two chunks with
\* different ids and left the other pending
C21_Witness ==
    /\ state # NULL
    /\ IsChunkCommand(tr)
    /\ tr[1].type = "acceptChunk"
    /\ Len(state[1].chunks) = 2
    /\ state[1].chunks[1].id # state[1].chunks[2].id
    /\ \E i \in 1..2 : state[1].chunks[i].id = tr[1].id /\ StatusOf(state, i) = "accepted"
    /\ HasStatus(state, "pending")

\* ------------------------------------------------------------------------
\* Texts of the chunks (GroupSpec)
\* ------------------------------------------------------------------------

\* the edits that open a chunk, and the place of edit op j's chunk in the
\* list of chunks
Openers == {j \in EditIndexes : OpensChunk(j, minGap)}

ChunkOf(openers, j) == Cardinality({k \in openers : k <= j})

\* the texts of the ops of one kind that belong to chunk i, from op j on, in
\* the order of the script; place[j] is the chunk of op j
RECURSIVE ConcatOps(_, _, _, _)
ConcatOps(kind, i, j, place) ==
    IF j > Len(diffs) THEN <<>>
    ELSE (IF diffs[j].op = kind /\ place[j] = i THEN diffs[j].text ELSE <<>>)
         \o ConcatOps(kind, i, j + 1, place)

\* C27 (swallowed gaps): oldText of every chunk is the in-order
\* concatenation of the texts of the chunk's DELETE ops and newText that of
\* its INSERT ops; an unchanged run that did not split the chunk adds
\* nothing to either.
C27_SwallowedGapNotAppended ==
    Grouped =>
        LET openers == Openers
            place == [j \in 1..Len(diffs) |-> ChunkOf(openers, j)]
        IN \A i \in 1..Len(chunks) :
              /\ chunks[i].oldText = ConcatOps("DELETE", i, 1, place)
              /\ chunks[i].newText = ConcatOps("INSERT", i, 1, place)

\* one chunk made of two edits of the same kind around an unchanged run
\* shorter than minGapSize
C27_Witness ==
    /\ Grouped
    /\ Len(chunks) = 1
    /\ \E j \in 2..(Len(diffs) - 1) :
          /\ diffs[j].op = "EQUAL"
          /\ Len(diffs[j].text) < minGap
          /\ diffs[j - 1].op = "DELETE"
          /\ diffs[j + 1].op = "DELETE"
          /\ chunks[1].oldText = diffs[j - 1].text \o diffs[j + 1].text
          /\ chunks[1].newText = <<>>

\* ------------------------------------------------------------------------
\* Claims about the document store (Spec)
\* ------------------------------------------------------------------------

\* the step is the completion of the write of a reviewed reconstruction
IsReviewedWrite ==
    \E i \in 1..Len(inflight) :
        /\ inflight' = RemoveAt(inflight, i)
        /\ file' = inflight[i]
        /\ fileExists'

\* C22 (review before commit): the document store changes (a file is
\* created, modified or deleted) only by the write of a reconstruction that
\* the user reviewed and accepted at least a part of; no openDiff request
\* changes the store by itself.
C22_ReviewBeforeCommit ==
    [][(file' # file \/ fileExists' # fileExists) => IsReviewedWrite]_vars

\* the step is the return of a vault.modify call (applyAcceptedChanges
\* resumes and dispatches its clear)
IsModifyDone == Len(inflight') < Len(inflight)

\* C29: the clear at the end of a commit leaves alone a session that still
\* has pending chunks (such a session is never the one being committed): a
\* review opened while the write was in flight keeps all its pending chunks.
C29_ClearOnlyOwnSession ==
    [][(IsModifyDone /\ state # NULL /\ PendingIndexes(state) # {})
        => state' = state]_vars

\* ------------------------------------------------------------------------
\* Progress of the commit.  A vault.modify call that was issued returns (the
\* promise settles) and the 100 ms timer of the openDiff handler fires;
\* requests and user transactions may stop at any time.
\* ------------------------------------------------------------------------

LiveSpec == Init /\ [][Next]_vars /\ WF_vars(ModifyDone) /\ WF_vars(OpenDiffShow)

\* C30 (liveness): once every chunk of the session in the field has been
\* decided, the field eventually becomes null.
C30_EventuallyCleared ==
    (state # NULL /\ areAllChunksProcessed(state)) ~> (state = NULL)

\* ------------------------------------------------------------------------
\* mcp/server.ts : McpServer
\* ------------------------------------------------------------------------

\* values crypto.randomUUID may return
Tokens == {"t1", "t2"}

\* ports the operating system may hand to this server (port: 0 asks for any
\* free port)
Ports == {1, 2}

\* ports of other running IDE instances: a port is never shared by two live
\* processes
OtherPorts == {3}

\* getClaudeIdeDir() and ~/.claude/ide
LockDirs == {"ide", "legacy"}

\* process.pid of this process / of another IDE instance
ThisPid == "self"

OtherPid == "other"

\* the sockets that may ask for an upgrade
Clients == {"c1", "c2"}

\* the x-claude-code-ide-authorization header of an upgrade request: absent,
\* empty, or some token
AuthHeaders == {NULL} \cup {<<t>> : t \in Tokens \cup {""}}

\* basePath of updateWorkspaceFolders
BasePath == "vault"

\* the file `${port}.lock` of directory dir, as createLockFile writes it
LockFile(dir, p, pid, token, folders) ==
    [dir |-> dir, port |-> p, pid |-> pid, authToken |-> token,
     workspaceFolders |-> folders, ideName |-> "Obsidian", transport |-> "ws"]

\* a verifyClient that lets a request without the header through
verifyClientAbsentOk(authHeader, token) ==
    IF authHeader # NULL /\ authHeader[1] # token
    THEN [ok |-> FALSE, code |-> 401]
    ELSE [ok |-> TRUE, code |-> 0]

\* verifyClient: cb(false, 401, 'Unauthorized') or cb(true)
verifyClient(authHeader, token) ==
    IF authHeader = NULL \/ authHeader[1] = "" \/ authHeader[1] # token
    THEN [ok |-> FALSE, code |-> 401]
    ELSE [ok |-> TRUE, code |-> 0]

\* cleanupStaleLockFiles(directories): every file of the two directories
\* whose name ends in .lock is unlinked; lockFiles holds only such files
cleanupStaleLockFiles(files) == {f \in files : f.dir \notin LockDirs}

\* createLockFile(port)
createLockFile(files, p, token) ==
    cleanupStaleLockFiles(files)
        \cup {LockFile(d, p, ThisPid, token, <<>>) : d \in LockDirs}

\* start(): no await precedes the end of createLockFile, so the token, the
\* listening socket and the lock files appear in one step
Start ==
    /\ wss # "open"
    /\ \E t \in Tokens, p \in Ports :
          /\ authToken' = t
          /\ port' = p
          /\ lockFiles' = createLockFile(lockFiles, p, t)
    /\ wss' = "open"
    /\ UNCHANGED <<connectedClients, upgrade, onMessage, sockets, sent>>
    /\ UNCHANGED <<pureVars, editorVars, toolVars>>

\* stop(): closes the listening socket and unlinks this.lockFilePath and
\* this.legacyLockFilePath; the sockets already connected stay in
\* connectedClients
Stop ==
    /\ wss = "open"
    /\ wss' = "closed"
    /\ lockFiles' = {f \in lockFiles : f.port # port}
    /\ UNCHANGED <<authToken, port, connectedClients, upgrade, onMessage, sockets, sent>>
    /\ UNCHANGED <<pureVars, editorVars, toolVars>>

\* an upgrade request of a new socket: verifyClient, then the "connection"
\* handler, which is handed the socket with readyState OPEN
Upgrade ==
    /\ wss = "open"
    /\ \E c \in Clients, h \in AuthHeaders :
          LET v == verifyClient(h, authToken)
          IN /\ sockets[c].readyState \in {"none", "CLOSED"}
             /\ upgrade' = <<[client |-> c, header |-> h,
                              accepted |-> v.ok, code |-> v.code]>>
             /\ connectedClients' = IF v.ok THEN connectedClients \cup {c}
                                    ELSE connectedClients
             /\ sockets' = IF v.ok
                           THEN [sockets EXCEPT ![c] = [readyState |-> "OPEN",
                                                        errored |-> FALSE,
                                                        onDisconnection |-> 0]]
                           ELSE sockets
    /\ UNCHANGED <<authToken, wss, port, lockFiles, onMessage, sent>>
    /\ UNCHANGED <<pureVars, editorVars, toolVars>>

\* the closing handshake of a socket starts (its peer sent a close frame, or
\* the connection is being torn down): no handler of the server runs
SockClosing ==
    /\ \E c \in Clients :
          /\ sockets[c].readyState = "OPEN"
          /\ sockets' = [sockets EXCEPT ![c].readyState = "CLOSING"]
    /\ UNCHANGED <<authToken, wss, port, lockFiles, connectedClients, upgrade,
                   onMessage, sent>>
    /\ UNCHANGED <<pureVars, editorVars, toolVars>>

\* an "error" handler that leaves the socket in connectedClients
sockOnErrorKeep(clients, c) == clients

\* sock.on("error"): this.connectedClients.delete(sock)
sockOnError(clients, c) == clients \ {c}

\* sock.on("close"): this.connectedClients.delete(sock)
sockOnClose(clients, c) == clients \ {c}

\* a socket emits "error": ws closes a connection it reports an error on, so
\* the socket is CLOSING from then on and its "close" is still to come
SockError ==
    /\ \E c \in Clients :
          /\ sockets[c].readyState \in {"OPEN", "CLOSING"}
          /\ connectedClients' = sockOnError(connectedClients, c)
          /\ sockets' = [sockets EXCEPT ![c].readyState = "CLOSING",
                                        ![c].errored = TRUE]
    /\ UNCHANGED <<authToken, wss, port, lockFiles, upgrade, onMessage, sent>>
    /\ UNCHANGED <<pureVars, editorVars, toolVars>>

\* a socket emits "close", once in its life: the handler deletes it and
\* calls config.onDisconnection
SockClose ==
    /\ \E c \in Clients :
          /\ sockets[c].readyState \in {"OPEN", "CLOSING"}
          /\ connectedClients' = sockOnClose(connectedClients, c)
          /\ sockets' = [sockets EXCEPT ![c].readyState = "CLOSED",
                                        ![c].onDisconnection = @ + 1]
    /\ UNCHANGED <<authToken, wss, port, lockFiles, upgrade, onMessage, sent>>
    /\ UNCHANGED <<pureVars, editorVars, toolVars>>

\* a broadcast that skips the test of readyState
broadcastAll(clients, socks) ==
    {[client |-> c, readyState |-> socks[c].readyState] : c \in clients}

\* broadcast(message): the sockets client.send is called on
broadcast(clients, socks) ==
    {[client |-> c, readyState |-> socks[c].readyState] :
         c \in {d \in clients : socks[d].readyState = "OPEN"}}

\* get clientCount
clientCount == Cardinality(connectedClients)

\* a call of broadcast
Broadcast ==
    /\ sent' = <<broadcast(connectedClients, sockets)>>
    /\ UNCHANGED <<authToken, wss, port, lockFiles, connectedClients, upgrade,
                   onMessage, sockets>>
    /\ UNCHANGED <<pureVars, editorVars, toolVars>>

\* the "message" handler of a connected socket: handleMessage ignores what
\* JSON.parse refuses and hands the rest to config.onMessage
Message ==
    /\ \E c \in connectedClients, valid \in BOOLEAN :
          onMessage' = IF valid THEN <<[client |-> c]>> ELSE onMessage
    /\ UNCHANGED <<authToken, wss, port, lockFiles, connectedClients, upgrade, sockets,
                   sent>>
    /\ UNCHANGED <<pureVars, editorVars, toolVars>>

\* updateWorkspaceFolders(basePath)
updateWorkspaceFolders ==
    /\ port # 0
    /\ lockFiles' = {IF f.port = port
                     THEN [f EXCEPT !.workspaceFolders = <<BasePath>>]
                     ELSE f : f \in lockFiles}
    /\ UNCHANGED <<authToken, wss, port, connectedClients, upgrade, onMessage, sockets, sent>>
    /\ UNCHANGED <<pureVars, editorVars, toolVars>>

\* another running IDE instance writes its lock file
OtherLock ==
    /\ \E d \in LockDirs, p \in OtherPorts, t \in Tokens :
          /\ \A f \in lockFiles : ~(f.dir = d /\ f.port = p)
          /\ lockFiles' = lockFiles \cup {LockFile(d, p, OtherPid, t, <<>>)}
    /\ UNCHANGED <<authToken, wss, port, connectedClients, upgrade, onMessage, sockets, sent>>
    /\ UNCHANGED <<pureVars, editorVars, toolVars>>

\* another IDE instance removes its lock file
OtherUnlock ==
    /\ \E f \in lockFiles :
          /\ f.pid = OtherPid
          /\ lockFiles' = lockFiles \ {f}
    /\ UNCHANGED <<authToken, wss, port, connectedClients, upgrade, onMessage, sockets, sent>>
    /\ UNCHANGED <<pureVars, editorVars, toolVars>>

ServerInit ==
    /\ diffs = <<>>
    /\ minGap = 0
    /\ chunks = <<>>
    /\ decisions = <<>>
    /\ originalContent = <<>>
    /\ result = NULL
    /\ pc = "idle"
    /\ EditorIdle
    /\ ToolIdle
    /\ ServerIdle

ServerNext ==
    \/ Start
    \/ Stop
    \/ Upgrade
    \/ SockClosing
    \/ SockError
    \/ SockClose
    \/ Broadcast
    \/ Message
    \/ updateWorkspaceFolders
    \/ OtherLock
    \/ OtherUnlock

ServerSpec == ServerInit /\ [][ServerNext]_vars

\* ------------------------------------------------------------------------
\* Claims about the server (ServerSpec)
\* ------------------------------------------------------------------------

\* the lock files this server wrote at its current port
OwnLockFiles == {f \in lockFiles : f.port = port /\ f.pid = ThisPid}

\* the header of the last upgrade request carries the server's token
HeaderIsToken ==
    /\ upgrade # NULL
    /\ upgrade[1].header # NULL
    /\ upgrade[1].header[1] # ""
    /\ upgrade[1].header[1] = authToken

C28_ForeignLocksKept ==
    [][wss' # wss
        => /\ \A f \in lockFiles : f.pid = OtherPid => f \in lockFiles'
           /\ wss' = "closed" => lockFiles \ lockFiles' \subseteq OwnLockFiles]_vars

\* ------------------------------------------------------------------------
\* ide-tools.ts : the openDiff handler that opens a DiffView, and DiffView
\* ------------------------------------------------------------------------

\* openDiff requests made in one run
MaxRequests == 2

\* handleSave calls of one view that may be in flight together
MaxSaves == 1

\* paths of the vault
Paths == {"p1", "p2"}

\* the content of the file before the proposal, and the proposed content
OldText == "old"

NewText == "new"

\* the arguments of a request: each path is given or not
ToolArgs ==
    [old : {NULL} \cup {<<p>> : p \in Paths},
     new : {NULL} \cup {<<p>> : p \in Paths},
     contents : ContentsKinds]

\* what the validation tests of the arguments
Given(args) ==
    [old |-> args.old # NULL, new |-> args.new # NULL, contents |-> args.contents]

\* the state handed to new DiffView(leaf, {...}): normalizedOldPath,
\* normalizedNewPath and new_file_contents || ''
DiffViewState(args) ==
    [oldFilePath |-> IF args.old # NULL THEN args.old[1] ELSE args.new[1],
     newFilePath |-> IF args.new # NULL THEN args.new[1] ELSE args.old[1],
     newFileContents |-> IF args.contents = "text" THEN <<NewText>> ELSE NULL]

\* a request whose handler returned at the validation
InvalidRequest(args) ==
    [args |-> args, pc |-> "replied", open |-> FALSE, resolvePromise |-> FALSE,
     decision |-> NULL, saves |-> <<>>, saved |-> FALSE, lastSave |-> "none",
     reply |-> ErrorReply("INVALID_PARAMS")]

\* a request whose handler passed the validation
ValidRequest(args) ==
    [args |-> args, pc |-> "opening", open |-> FALSE, resolvePromise |-> FALSE,
     decision |-> NULL, saves |-> <<>>, saved |-> FALSE, lastSave |-> "none",
     reply |-> NULL]

\* a resolve function that lets the last call win
resolveLast(r, value) ==
    IF r.resolvePromise THEN [r EXCEPT !.decision = <<value>>] ELSE r

\* `if (this.resolvePromise) this.resolvePromise(value)`: the first call
\* settles userDecisionPromise, later calls change nothing
resolve(r, value) ==
    IF r.resolvePromise
    THEN [r EXCEPT !.decision = IF @ = NULL THEN <<value>> ELSE @]
    ELSE r

\* DiffView.onClose
onClose(r) == [resolve(r, "DIFF_REJECTED") EXCEPT !.open = FALSE, !.resolvePromise = FALSE]

\* app.workspace.detachLeavesOfType(DIFF_VIEW_TYPE)
detachLeavesOfType(rs) == [i \in DOMAIN rs |-> IF rs[i].open THEN onClose(rs[i]) ELSE rs[i]]

\* the handler up to detachLeavesOfType: validation, then the open diff
\* views are closed
ToolRequest ==
    /\ Len(requests) < MaxRequests
    /\ \E args \in ToolArgs :
          requests' =
              IF NoPaths(Given(args)) \/ (IsCreation(Given(args)) /\ MissingContents(Given(args)))
              THEN Append(requests, InvalidRequest(args))
              ELSE Append(detachLeavesOfType(requests), ValidRequest(args))
    /\ UNCHANGED vault
    /\ UNCHANGED <<pureVars, editorVars, serverVars>>

\* the rest of the handler up to `await view.getUserDecision()`: the leaf is
\* found or opened (leaf.openFile may throw: INTERNAL_ERROR), new DiffView,
\* leaf.open(view), which closes a diff view shown in the same leaf
ToolOpen ==
    /\ \E i \in 1..Len(requests), ok \in BOOLEAN, sameLeaf \in BOOLEAN :
          /\ requests[i].pc = "opening"
          /\ requests' =
                IF ok
                THEN [(IF sameLeaf THEN detachLeavesOfType(requests) ELSE requests)
                        EXCEPT ![i].pc = "waiting", ![i].open = TRUE,
                               ![i].resolvePromise = TRUE]
                ELSE [requests EXCEPT ![i].pc = "replied",
                                      ![i].reply = ErrorReply("INTERNAL_ERROR")]
    /\ UNCHANGED vault
    /\ UNCHANGED <<pureVars, editorVars, serverVars>>

\* the file operation handleSave chooses, from the vault as it is when the
\* button is clicked; NULL when handleSave throws before any await
SaveOperation(st) ==
    IF st.newFileContents = NULL
    THEN (IF vault[st.oldFilePath] # NULL THEN <<"delete">> ELSE NULL)
    ELSE IF st.oldFilePath # st.newFilePath
    THEN (IF vault[st.oldFilePath] # NULL THEN <<"rename">> ELSE <<"create">>)
    ELSE (IF vault[st.newFilePath] = NULL THEN <<"create">> ELSE <<"modify">>)

\* the Save button: handleSave up to its first await, or up to its catch
ClickSave ==
    /\ \E i \in 1..Len(requests) :
          /\ requests[i].open
          /\ Len(requests[i].saves) < MaxSaves
          /\ LET operation == SaveOperation(DiffViewState(requests[i].args))
             IN requests' =
                   IF operation = NULL
                   THEN [requests EXCEPT ![i].lastSave = "threw"]
                   ELSE [requests EXCEPT ![i].saves = Append(@, operation[1])]
    /\ UNCHANGED vault
    /\ UNCHANGED <<pureVars, editorVars, serverVars>>

\* can the vault carry out the operation now
CanComplete(operation, st) ==
    CASE operation = "delete" -> vault[st.oldFilePath] # NULL
      [] operation = "rename" -> vault[st.oldFilePath] # NULL /\ vault[st.newFilePath] = NULL
      [] operation = "create" -> vault[st.newFilePath] = NULL
      [] OTHER -> vault[st.newFilePath] # NULL

\* the vault after the operation completed
Completed(operation, st) ==
    CASE operation = "delete" -> [vault EXCEPT ![st.oldFilePath] = NULL]
      [] operation = "rename" -> [vault EXCEPT ![st.oldFilePath] = NULL,
                                               ![st.newFilePath] = st.newFileContents]
      [] OTHER -> [vault EXCEPT ![st.newFilePath] = st.newFileContents]

\* the vault after vault.rename succeeded and vault.modify threw
Moved(st) ==
    [vault EXCEPT ![st.oldFilePath] = NULL, ![st.newFilePath] = vault[st.oldFilePath]]

\* an end of handleSave that reports FILE_SAVED whatever the operation did
afterSaveAlways(r, ok) ==
    [resolve(r, "FILE_SAVED") EXCEPT !.saved = @ \/ ok,
                                     !.lastSave = IF ok THEN "ok" ELSE "threw"]

\* the end of handleSave: after the awaited operation the promise is
\* resolved with FILE_SAVED; a throw goes to the catch, which only shows a
\* Notice
afterSave(r, ok) ==
    IF ok
    THEN [resolve(r, "FILE_SAVED") EXCEPT !.saved = TRUE, !.lastSave = "ok"]
    ELSE [r EXCEPT !.lastSave = "threw"]

\* the awaited file operation of a handleSave returns or throws; after a
\* success the saved file replaces the view in its leaf (leaf.openFile), or,
\* when no file is at newFilePath, close() detaches every diff view
SaveDone ==
    /\ \E i \in 1..Len(requests), outcome \in {"ok", "threw", "moved"} :
          /\ requests[i].saves # <<>>
          /\ LET operation == Head(requests[i].saves)
                 st == DiffViewState(requests[i].args)
                 popped == [requests[i] EXCEPT !.saves = Tail(@)]
             IN /\ outcome = "ok" => CanComplete(operation, st)
                /\ outcome = "moved" => (operation = "rename" /\ CanComplete(operation, st))
                /\ vault' = CASE outcome = "ok" -> Completed(operation, st)
                              [] outcome = "moved" -> Moved(st)
                              [] OTHER -> vault
                /\ requests' =
                      IF outcome = "ok"
                      THEN IF vault'[st.newFilePath] # NULL
                           THEN [requests EXCEPT ![i] = onClose(afterSave(popped, TRUE))]
                           ELSE detachLeavesOfType(
                                    [requests EXCEPT ![i] = afterSave(popped, TRUE)])
                      ELSE [requests EXCEPT ![i] = afterSave(popped, FALSE)]
    /\ UNCHANGED <<pureVars, editorVars, serverVars>>

\* the Reject button: handleReject
ClickReject ==
    /\ \E i \in 1..Len(requests) :
          /\ requests[i].open
          /\ requests' = detachLeavesOfType(
                             [requests EXCEPT ![i] = resolve(@, "DIFF_REJECTED")])
    /\ UNCHANGED vault
    /\ UNCHANGED <<pureVars, editorVars, serverVars>>

\* the user closes the tab of a diff view
CloseView ==
    /\ \E i \in 1..Len(requests) :
          /\ requests[i].open
          /\ requests' = [requests EXCEPT ![i] = onClose(@)]
    /\ UNCHANGED vault
    /\ UNCHANGED <<pureVars, editorVars, serverVars>>

\* the handler resumes after `await view.getUserDecision()` and replies
ToolReply ==
    /\ \E i \in 1..Len(requests) :
          /\ requests[i].pc = "waiting"
          /\ requests[i].decision # NULL
          /\ requests' = [requests EXCEPT ![i].pc = "replied",
                                          ![i].reply = ResultReply(requests[i].decision[1])]
    /\ UNCHANGED vault
    /\ UNCHANGED <<pureVars, editorVars, serverVars>>

ToolInit ==
    /\ diffs = <<>>
    /\ minGap = 0
    /\ chunks = <<>>
    /\ decisions = <<>>
    /\ originalContent = <<>>
    /\ result = NULL
    /\ pc = "idle"
    /\ EditorIdle
    /\ ServerIdle
    /\ vault \in [Paths -> {NULL, <<OldText>>}]
    /\ requests = <<>>

ToolNext ==
    \/ ToolRequest
    \/ ToolOpen
    \/ ClickSave
    \/ SaveDone
    \/ ClickReject
    \/ CloseView
    \/ ToolReply

ToolSpec == ToolInit /\ [][ToolNext]_vars

\* ------------------------------------------------------------------------
\* Claims about the DiffView flow (ToolSpec)
\* ------------------------------------------------------------------------

\* request i existed before the step
Existing(i) == i \in 1..Len(requests) /\ i \in 1..Len(requests')

\* a handleSave of request i ended in its catch in this step
SaveThrew(i) ==
    /\ Existing(i)
    /\ requests'[i].lastSave = "threw"
    /\ \/ requests[i].lastSave # "threw"
       \/ Len(requests'[i].saves) < Len(requests[i].saves)

\* C24 (FILE_SAVED): a request is answered FILE_SAVED only if a file
\* operation of its view's handleSave completed; when handleSave throws, the
\* decision and the reply of the request are what they were and the view is
\* as open as it was.
C24_SavedOnlyAfterSuccess ==
    [][/\ \A i \in 1..Len(requests') :
             (requests'[i].decision = <<"FILE_SAVED">>
                \/ requests'[i].reply = ResultReply("FILE_SAVED"))
             => requests'[i].saved
       /\ \A i \in 1..Len(requests) :
             SaveThrew(i)
             => /\ requests'[i].decision = requests[i].decision
                /\ requests'[i].reply = requests[i].reply
                /\ requests'[i].open = requests[i].open]_vars

\* a save threw after its file operation was started, the view is still
\* open and its request unanswered, while another request was answered
\* FILE_SAVED
C24_Witness ==
    /\ \E i \in 1..Len(requests) :
          /\ requests[i].lastSave = "threw"
          /\ requests[i].open
          /\ requests[i].saves = <<>>
          /\ requests[i].decision = NULL
          /\ requests[i].reply = NULL
          /\ DiffViewState(requests[i].args).newFileContents # NULL
    /\ \E i \in 1..Len(requests) :
          /\ requests[i].reply = ResultReply("FILE_SAVED")
          /\ requests[i].saved

\* C25 (one decision): a request that opened a view is answered only once a
\* decision exists and with that decision; a decision, once made, and a
\* reply, once sent, never change; a view that closes before any decision
\* gives DIFF_REJECTED, unless its save completed in the same step, which
\* gives FILE_SAVED; FILE_SAVED or DIFF_REJECTED are the only decisions.
C25_DecidedOnce ==
    [][/\ \A i \in 1..Len(requests') :
             /\ requests'[i].decision \in {NULL, <<"FILE_SAVED">>, <<"DIFF_REJECTED">>}
             /\ requests'[i].pc = "waiting" => requests'[i].reply = NULL
             /\ (requests'[i].reply # NULL /\ requests'[i].reply[1].error = "")
                   => requests'[i].reply = ResultReply(requests'[i].decision[1])
       /\ \A i \in 1..Len(requests) :
             /\ requests[i].decision # NULL => requests'[i].decision = requests[i].decision
             /\ requests[i].reply # NULL => requests'[i].reply = requests[i].reply
             /\ (requests[i].decision = NULL /\ requests'[i].decision # NULL)
                   => requests'[i].decision =
                         IF requests'[i].saved /\ ~requests[i].saved
                         THEN <<"FILE_SAVED">> ELSE <<"DIFF_REJECTED">>
             /\ (requests[i].decision = NULL /\ requests[i].open /\ ~requests'[i].open)
                   => requests'[i].decision # NULL]_vars

\* one request was answered FILE_SAVED and its view is closed, another was
\* answered DIFF_REJECTED although a save of its view completed later
C25_Witness ==
    /\ \E i \in 1..Len(requests) :
          /\ requests[i].reply = ResultReply("FILE_SAVED")
          /\ ~requests[i].open
    /\ \E i \in 1..Len(requests) :
          /\ requests[i].reply = ResultReply("DIFF_REJECTED")
          /\ requests[i].saved

\* the arguments fail the validation of the handler
InvalidArgs(args) ==
    \/ args.old = NULL /\ args.new = NULL
    \/ args.old = NULL /\ args.new # NULL /\ args.contents \in {"null", "undefined"}

\* C26 (validation): a request with neither path, or with only
\* new_file_path and new_file_contents null or undefined, is answered
\* INVALID_PARAMS at once; the vault is not touched, no diff view is closed
\* or opened, and nothing is ever saved for it.
C26_InvalidParams ==
    [][/\ (Len(requests') > Len(requests) /\ InvalidArgs(requests'[Len(requests')].args))
          => /\ requests'[Len(requests')].reply = ErrorReply("INVALID_PARAMS")
             /\ SubSeq(requests', 1, Len(requests)) = requests
             /\ vault' = vault
       /\ \A i \in 1..Len(requests') :
             InvalidArgs(requests'[i].args)
             => /\ ~requests'[i].open
                /\ requests'[i].saves = <<>>
                /\ ~requests'[i].saved
                /\ requests'[i].decision = NULL]_vars

\* a creation request without contents (undefined) was answered
\* INVALID_PARAMS while the diff view of an earlier request stayed open
C26_Witness ==
    /\ Len(requests) = 2
    /\ requests[1].open
    /\ requests[1].decision = NULL
    /\ requests[2].args.old = NULL
    /\ requests[2].args.new # NULL
    /\ requests[2].args.contents = "undefined"
    /\ requests[2].reply = ErrorReply("INVALID_PARAMS")

\* ------------------------------------------------------------------------
\* Chunks that span no unchanged run (PureSpec)
\* ------------------------------------------------------------------------

\* the EQUAL ops that lie between two edits
InnerEquals ==
    {j \in 1..Len(diffs) :
        /\ diffs[j].op = "EQUAL"
        /\ \E i \in 1..(j - 1) : diffs[i].op # "EQUAL"
        /\ \E k \in (j + 1)..Len(diffs) : diffs[k].op # "EQUAL"}

\* no chunk of the grouping spans an unchanged run
NoSpannedRun ==
    \/ minGap = 0
    \/ \A j \in InnerEquals : Len(diffs[j].text) >= minGap

\* C31: when no chunk spans an unchanged run, the width of each range of
\* every chunk is the length of its text, and applyChunks with every chunk
\* accepted returns the target content.
C31_ExactWithoutSpannedRun ==
    (pc # "input" /\ NoSpannedRun) =>
        /\ \A i \in 1..Len(chunks) :
              /\ chunks[i].oldRange.to - chunks[i].oldRange.from = Len(chunks[i].oldText)
              /\ chunks[i].newRange.to - chunks[i].newRange.from = Len(chunks[i].newText)
        /\ (ReturnedForOld /\ \A i \in 1..Len(chunks) : chunks[i].id \in MarkedAccepted)
              => result = NewOf(diffs)

\* two edits kept apart by an unchanged run as long as a positive
\* minGapSize gave two chunks, both accepted, and the target came back
C31_Witness ==
    /\ ReturnedForOld
    /\ minGap > 0
    /\ InnerEquals # {}
    /\ NoSpannedRun
    /\ Len(chunks) = 2
    /\ \A i \in 1..Len(chunks) : chunks[i].id \in MarkedAccepted
    /\ result = NewOf(diffs)
    /\ result # OldOf(diffs)

\* ------------------------------------------------------------------------
\* The reducer alone: inlineDiffStateField.update applied to one field value
\* and one transaction, which may carry several effects of any kind
\* ------------------------------------------------------------------------

\* largest number of effects in one transaction
MaxEffects == 3

\* the edit scripts of the sessions shown: two chunks, and one chunk
ReducerScripts ==
    {<<[op |-> "DELETE", text |-> <<"a">>], [op |-> "EQUAL", text |-> Filler],
       [op |-> "INSERT", text |-> <<"b">>]>>,
     <<[op |-> "INSERT", text |-> <<"a">>]>>}

\* the ids generateChunkId hands to those sessions
ReducerIds == [i \in 1..MaxChunks |-> IF i = 1 THEN "id1" ELSE "id2"]

\* the sessions a showInlineDiffEffect may carry, as the openDiff handler
\* builds them
ShownSessions ==
    {[filePath |-> FilePath,
      chunks |-> computeDiffChunks(d, DefaultMinGapSize, ReducerIds),
      originalContent |-> OldOf(d),
      targetContent |-> NewOf(d)] : d \in ReducerScripts}

ChunkStatuses == {"pending", "accepted", "rejected"}

\* the values the field may hold: null, or a session after any decisions
FieldValues ==
    {NULL} \cup
    {<<[s EXCEPT !.chunks = [i \in 1..Len(s.chunks) |->
                                [s.chunks[i] EXCEPT !.status = sts[i]]]]>> :
        <<s, sts>> \in {p \in ShownSessions \X [1..MaxChunks -> ChunkStatuses] : TRUE}}

\* every effect the field listens to
AllEffects ==
    DecisionEffects \cup {clearInlineDiffEffect}
        \cup {showInlineDiffEffect(s) : s \in ShownSessions}

Transactions == UNION {[1..n -> AllEffects] : n \in 0..MaxEffects}

ReducerInit ==
    /\ diffs = <<>>
    /\ minGap = 0
    /\ chunks = <<>>
    /\ decisions = <<>>
    /\ originalContent = <<>>
    /\ result = NULL
    /\ pc = "input"
    /\ state \in FieldValues
    /\ tr \in Transactions
    /\ file = <<>>
    /\ inflight = <<>>
    /\ reconstructions = 0
    /\ writes = 0
    /\ sessions = 0
    /\ opening = <<>>
    /\ replaced = FALSE
    /\ fileExists = FALSE
    /\ reply = NULL
    /\ decorations = <<>>
    /\ ToolIdle
    /\ ServerIdle

\* inlineDiffStateField.update(state, tr)
Update ==
    /\ pc = "input"
    /\ state' = inlineDiffStateFieldUpdate(state, tr)
    /\ pc' = "returned"
    /\ UNCHANGED <<diffs, minGap, chunks, decisions, originalContent, result>>
    /\ UNCHANGED <<tr, file, inflight, reconstructions, writes, sessions, opening,
                   replaced, fileExists, reply, decorations>>
    /\ UNCHANGED <<toolVars, serverVars>>

ReducerSpec == ReducerInit /\ [][Update]_vars

\* ------------------------------------------------------------------------
\* Claims about the reducer (ReducerSpec)
\* ------------------------------------------------------------------------

\* the places of the transaction that hold an effect of the given type
EffectsOfType(t, type) == {i \in 1..Len(t) : t[i].type = type}

\* the least element of a non-empty set of naturals
Least(S) == CHOOSE i \in S : \A j \in S : i <= j

\* the status of one chunk after one decision effect
StatusAfterEffect(status, id, effect) ==
    CASE effect.type = "acceptChunk" /\ effect.id = id -> "accepted"
      [] effect.type = "rejectChunk" /\ effect.id = id -> "rejected"
      [] effect.type = "acceptAllChunks" /\ status = "pending" -> "accepted"
      [] effect.type = "rejectAllChunks" /\ status = "pending" -> "rejected"
      [] OTHER -> status

\* the status of one chunk after the effects of a transaction, first to last
RECURSIVE StatusAfter(_, _, _)
StatusAfter(status, id, effects) ==
    IF effects = <<>> THEN status
    ELSE StatusAfter(StatusAfterEffect(status, id, Head(effects)), id, Tail(effects))

\* C32 (precedence): with a showInlineDiffEffect in the transaction the new
\* value is the session of the (first) show, whatever else the transaction
\* carries; otherwise a clearInlineDiffEffect gives null; otherwise the
\* decision effects act on the session in their order in the transaction.
C32_EffectPrecedence ==
    [][LET shows == EffectsOfType(tr, "showInlineDiff")
           clears == EffectsOfType(tr, "clearInlineDiff")
       IN /\ shows # {} => state' = tr[Least(shows)].show
          /\ (shows = {} /\ clears # {}) => state' = NULL
          /\ (shows = {} /\ clears = {} /\ state # NULL)
                => /\ state' # NULL
                   /\ Len(state'[1].chunks) = Len(state[1].chunks)
                   /\ \A i \in 1..Len(state[1].chunks) :
                         state'[1].chunks[i] =
                            [state[1].chunks[i] EXCEPT
                                !.status = StatusAfter(@, state[1].chunks[i].id, tr)]]_vars

\* an accept, then a clear, then a show in one transaction: the field holds
\* the shown session, every chunk of it pending
C32_Witness ==
    /\ pc = "returned"
    /\ Len(tr) = MaxEffects
    /\ tr[1].type = "acceptChunk"
    /\ tr[2].type = "clearInlineDiff"
    /\ tr[3].type = "showInlineDiff"
    /\ state = tr[3].show
    /\ Len(state[1].chunks) = 2
    /\ tr[1].id = state[1].chunks[1].id
    /\ \A i \in 1..Len(state[1].chunks) : StatusOf(state, i) = "pending"

\* ------------------------------------------------------------------------
\* Decisions without a session (Spec)
\* ------------------------------------------------------------------------

\* C33 (no session): a transaction of decision effects dispatched while the
\* field is null leaves it null; the queries then answer 0 pending, not
\* fully processed and no accepted chunk, and the step starts no
\* reconstruction and no write and leaves the file as it was.
C33_NoSessionNoOp ==
    [][(IsDispatch /\ state = NULL /\ IsDecisionTransaction(tr'))
        => /\ state' = NULL
           /\ getPendingChunksCount(state') = 0
           /\ ~areAllChunksProcessed(state')
           /\ getAcceptedChunks(state') = <<>>
           /\ inflight' = inflight
           /\ reconstructions' = reconstructions
           /\ writes' = writes
           /\ file' = file
           /\ fileExists' = fileExists]_vars

\* an accept-all arrived after the session was committed and cleared: the
\* field is null and the file is the one the commit wrote
C33_Witness ==
    /\ state = NULL
    /\ tr = <<acceptAllChunksEffect>>
    /\ writes = 1
    /\ inflight = <<>>
    /\ fileExists
    /\ file \notin InitialFiles

\* ------------------------------------------------------------------------
\* applyChunks on chunk lists and decision lists in any order
\* ------------------------------------------------------------------------

\* the sequences with the entries of s in every order
Reorderings(s) ==
    {[i \in 1..Len(s) |-> s[p[i]]] : p \in Permutations(1..Len(s))}

\* applyChunks(originalContent, chunks, decisions) with the chunks of
\* computeDiffChunks and the decisions handed over in some order
ApplyReordered ==
    /\ pc = "grouped"
    /\ \E decs \in DecisionLists, original \in Originals(OldOf(diffs)),
          cs \in Reorderings(chunks) :
          /\ decisions' = decs
          /\ originalContent' = original
          /\ chunks' = cs
          /\ result' = applyChunks(original, cs, decs)
    /\ pc' = "returned"
    /\ UNCHANGED <<diffs, minGap>>
    /\ UNCHANGED <<editorVars, toolVars, serverVars>>

OrderNext == Compute \/ ApplyReordered

OrderSpec == PureInit /\ [][OrderNext]_vars

\* the chunks do not overlap and no two start at the same offset
DisjointDistinct(cs) ==
    \A i, j \in 1..Len(cs) :
        i # j => /\ cs[i].oldRange.from # cs[j].oldRange.from
                 /\ \/ cs[i].oldRange.to <= cs[j].oldRange.from
                    \/ cs[j].oldRange.to <= cs[i].oldRange.from

\* C34 (order independence): for non-overlapping chunks with pairwise
\* distinct oldRange.from, applyChunks returns the same content for every
\* order of the chunk list and every order of the decisions.
C34_OrderIndependent ==
    (pc = "returned" /\ DisjointDistinct(chunks)) =>
        \A cs \in Reorderings(chunks), decs \in Reorderings(decisions) :
            applyChunks(originalContent, cs, decs) = result

\* two chunks handed over last first, both accepted by two decisions, with
\* replacements that move the offsets: the target came back
C34_Witness ==
    /\ ReturnedForOld
    /\ Len(chunks) = 2
    /\ chunks[1].oldRange.from > chunks[2].oldRange.from
    /\ chunks[1].id # chunks[2].id
    /\ Len(decisions) = 2
    /\ decisions[1].chunkId = chunks[2].id
    /\ decisions[2].chunkId = chunks[1].id
    /\ \A j \in 1..Len(decisions) : decisions[j].accepted
    /\ Len(chunks[2].newText) # Len(chunks[2].oldText)
    /\ result = NewOf(diffs)
    /\ result # OldOf(diffs)

\* ------------------------------------------------------------------------
\* Counts of a session (Spec)
\* ------------------------------------------------------------------------

\* the chunks of the session that have the given status
IndexesWith(value, status) ==
    {i \in 1..Len(value[1].chunks) : StatusOf(value, i) = status}

\* the k-th smallest element of a set of naturals
KthOf(S, k) == CHOOSE i \in S : Cardinality({j \in S : j <= i}) = k

\* C35 (counts): in every session the pending, accepted and rejected chunks
\* add up to the number of chunks; getAcceptedChunks is the list of the
\* accepted chunks in the order of the session; a decision command changes
\* neither the number of chunks nor raises getPendingChunksCount.
C35_SessionCounts ==
    [][/\ state' # NULL
          => LET accepted == IndexesWith(state', "accepted")
                 got == getAcceptedChunks(state')
             IN /\ Cardinality(IndexesWith(state', "pending"))
                      + Cardinality(accepted)
                      + Cardinality(IndexesWith(state', "rejected"))
                      = Len(state'[1].chunks)
                /\ getPendingChunksCount(state')
                      = Cardinality(IndexesWith(state', "pending"))
                /\ Len(got) = Cardinality(accepted)
                /\ \A k \in 1..Len(got) : got[k] = state'[1].chunks[KthOf(accepted, k)]
       /\ (IsDispatch /\ state # NULL /\ state' # NULL /\ IsDecisionTransaction(tr'))
          => /\ Len(state'[1].chunks) = Len(state[1].chunks)
             /\ getPendingChunksCount(state') <= getPendingChunksCount(state)]_vars

\* a reject command decided the first of two chunks after the second was
\* accepted: one chunk of each decided status, none pending
C35_Witness ==
    /\ state # NULL
    /\ Len(state[1].chunks) = 2
    /\ tr = <<rejectChunkEffect(state[1].chunks[1].id)>>
    /\ StatusOf(state, 1) = "rejected"
    /\ StatusOf(state, 2) = "accepted"
    /\ getAcceptedChunks(state) = <<state[1].chunks[2]>>
    /\ getPendingChunksCount(state) = 0

\* ------------------------------------------------------------------------
\* C36: the decorations of the editor carry one Accept/Discard control for
\* each chunk whose status is pending in the current diff state, in the
\* order of the chunks, with that chunk's id at that chunk's position, and
\* none for an accepted or rejected chunk; as long as a session is shown
\* there is one header and its remaining counter is the number of pending
\* chunks; without a session nothing is rendered
\* ------------------------------------------------------------------------

RangesOfKind(kind) == SelectSeq(decorations, LAMBDA r : r.kind = kind)

PendingChunks ==
    IF state = NULL THEN <<>>
    ELSE SelectSeq(state[1].chunks, LAMBDA c : c.status = "pending")

LiveSockets ==
    {c \in Clients : /\ sockets[c].readyState \in {"OPEN", "CLOSING"}
                     /\ ~sockets[c].errored}

C37_ConnectedClients ==
    /\ connectedClients = LiveSockets
    /\ clientCount = Cardinality(LiveSockets)
    /\ \A c \in Clients :
          sockets[c].onDisconnection = IF sockets[c].readyState = "CLOSED" THEN 1 ELSE 0
    /\ sent # NULL => \A m \in sent[1] : m.readyState = "OPEN"

\* C37 witness: one socket has emitted "error" and then "close", with one
\* call of onDisconnection; the other is still in connectedClients but
\* closing, and the last broadcast sent to nobody
C37_Witness ==
    \E c \in Clients, d \in Clients :
        /\ sockets[c].errored
        /\ sockets[c].readyState = "CLOSED"
        /\ sockets[c].onDisconnection = 1
        /\ sockets[d].readyState = "CLOSING"
        /\ connectedClients = {d}
        /\ sent = <<{}>>

====
